---- MODULE Spec2Model ----
(***************************************************************************)
(* A model of postpredict: the Schaake-shuffle postprocessor of            *)
(* src/src/postpredict/dependence.py with its helpers in util.py,          *)
(* metrics.py and weighters.py.                                            *)
(*                                                                         *)
(* A polars data frame is a sequence of rows; a row is a function from     *)
(* column names (strings) to values, so DOMAIN row is the frame's set of   *)
(* columns.  A Python object is a record of the attributes set so far:     *)
(* reading an attribute that is not in DOMAIN self is an AttributeError.   *)
(***************************************************************************)
EXTENDS Integers, Sequences, FiniteSets, TLC

VARIABLES
    self,        \* the postprocessor object: a record of its attributes
    np_random,   \* state of numpy's process-global generator (np.random)
    op,          \* the operation of the last call ("none" before any call)
    args,        \* the arguments of the call under study
    ret,         \* what the last call returned (NoValue if it raised)
    raised,      \* the exception the last call raised, or "none"
    history      \* the <<ret, raised>> of the calls made so far, oldest first

vars == <<self, np_random, op, args, ret, raised, history>>

-----------------------------------------------------------------------------
(* Bounds of the model.                                                    *)

\* largest number of rows one (group, horizon) cell of a long input holds
MaxCount == 2

\* the horizons a long input may hold: negative, zero and positive
HorizonUniverse == (0 - 1) .. 1

\* the (location, reference_date) groups a long input may hold: two
\* reference dates of one location, and a second location
GroupUniverse == << <<"a", 1>>, <<"a", 2>>, <<"b", 1>> >>

\* largest number of rows (samples) of a wide group handed to _apply_shuffle
MaxRows == 2

\* the sample values and the template values of a shuffled group; two values
\* let a column hold ties and hold none
SampleValues == {1, 2}

TemplateValues == {1, 2}

\* largest number of dates a location has observations for
MaxDates == 3

\* the states of a random generator
RngStates == 0 .. 7

\* the floating-point range of the model: a power of two below
\* 2^(-MaxExponent) underflows to 0.0 (float64: 1074)
MaxExponent == 4

\* the distances of energy_score are kept to 1/DistancePrecision, rounded
\* down, where numpy keeps them to 53 bits
DistancePrecision == 4

\* the values of the one feature the Gaussian kernel weighs by
FeatureValues == 0 .. 3


-----------------------------------------------------------------------------
(* Generic helpers: sets, sequences and data frames.                       *)

Range(s) == {s[i] : i \in DOMAIN s}

Min(S) == CHOOSE x \in S : \A y \in S : x <= y

Max(S) == CHOOSE x \in S : \A y \in S : x >= y

RECURSIVE SumSeq(_)
SumSeq(s) == IF s = <<>> THEN 0 ELSE Head(s) + SumSeq(Tail(s))

\* all orderings of a finite set, as sequences without repetition
Orderings(S) ==
    {q \in [1 .. Cardinality(S) -> S] : \A i, j \in DOMAIN q : i # j => q[i] # q[j]}

\* polars df[cols] on one row
Project(row, cols) == [c \in cols |-> row[c]]

\* polars with_columns(name = v) on one row: adds or overwrites column name
WithColumn(row, name, v) ==
    [c \in DOMAIN row \cup {name} |-> IF c = name THEN v ELSE row[c]]

\* F applied to the value of v (v is evaluated once, as Python evaluates an
\* argument or an assignment's right-hand side once)
Bind(v, F(_)) == CHOOSE r \in {F(x) : x \in {v}} : TRUE

\* a missing cell of a data frame (polars null); real values are positive
Null == 0

\* what a call that raised returns
NoValue == <<>>

-----------------------------------------------------------------------------
(* Column names.  transform's keyword defaults (dependence.py:46-48) name  *)
(* the reference-time, horizon and value columns; the sample-id column     *)
(* name idx_col is an argument of every call.                              *)

reference_time_col == "reference_date"

horizon_col == "horizon"

pred_col == "value"

-----------------------------------------------------------------------------
(* _pivot_horizon (dependence.py:280-362).                                 *)

\* the columns that identify a (key_cols, reference_time) group
group_cols(key_cols) == Range(key_cols) \cup {reference_time_col}

\* model_out[horizon_col].min() and .max(), and list(range(min, max + 1))
min_horizon(model_out) == Min({model_out[i][horizon_col] : i \in DOMAIN model_out})

max_horizon(model_out) == Max({model_out[i][horizon_col] : i \in DOMAIN model_out})

expected_horizons(model_out) == min_horizon(model_out) .. max_horizon(model_out)

\* group_by(key_cols + [reference_time_col, horizon_col]).agg(len): one row
\* per (group, horizon) present, with the number of input rows it has
horizon_counts(model_out, key_cols) ==
    LET by == group_cols(key_cols) \cup {horizon_col}
        keys == {Project(model_out[i], by) : i \in DOMAIN model_out}
    IN  {WithColumn(k, "postpredict_horizon_count",
            Cardinality({i \in DOMAIN model_out : Project(model_out[i], by) = k}))
         : k \in keys}

\* the groups of a frame of horizon_counts rows under group_by(by)
groups_of(hc, by) == {Project(r, by) : r \in hc}

\* a variant of all_groups_match_expected that compares a group's horizons
\* with the group's own range instead of the range of the whole input
all_groups_match_own_range(hc, key_cols, expected) ==
    \A g \in groups_of(hc, group_cols(key_cols)) :
        LET present == {r[horizon_col] : r \in {x \in hc : Project(x, group_cols(key_cols)) = g}}
        IN  present = Min(present) .. Max(present)

\* every (key_cols, reference_time) group of horizon_counts hc holds exactly
\* the expected horizons: the symmetric difference of its horizon set and
\* expected_horizons is empty
all_groups_match_expected(hc, key_cols, expected) ==
    \A g \in groups_of(hc, group_cols(key_cols)) :
        LET present == {r[horizon_col] : r \in {x \in hc : Project(x, group_cols(key_cols)) = g}}
        IN  (present \ expected) \cup (expected \ present) = {}

\* group_by(key_cols).n_unique()["postpredict_horizon_count"]: for each
\* key_cols group (all its reference times together), the number of distinct
\* per-horizon counts
n_unique_horizon_counts(hc, key_cols) ==
    [g \in groups_of(hc, Range(key_cols)) |->
        Cardinality({r["postpredict_horizon_count"] :
                        r \in {x \in hc : Project(x, Range(key_cols)) = g}})]

\* a variant of any_n_unique_above_one with the threshold off by one
any_n_unique_above_two(n_unique) == \E g \in DOMAIN n_unique : n_unique[g] > 2

\* any(n_unique_horizon_counts > 1)
any_n_unique_above_one(n_unique) == \E g \in DOMAIN n_unique : n_unique[g] > 1

\* group_by(key_cols + [reference_time_col]).agg(first count), with the
\* running start of each group's block: cum_sum() - count.  polars returns
\* the groups in no particular order: order is the order it happened to use.
first_counts(hc, key_cols, order) ==
    [i \in DOMAIN order |->
        (CHOOSE r \in hc : Project(r, group_cols(key_cols)) = order[i])["postpredict_horizon_count"]]

with_cum_count(order, counts) ==
    [i \in DOMAIN order |->
        WithColumn(
            WithColumn(order[i], "postpredict_horizon_count", counts[i]),
            "postpredict_horizon_cum_count",
            SumSeq(SubSeq(counts, 1, i)) - counts[i])]

horizon_count_by_group(model_out, key_cols, order) ==
    Bind(horizon_counts(model_out, key_cols),
         LAMBDA hc : Bind(first_counts(hc, key_cols, order),
                          LAMBDA counts : with_cum_count(order, counts)))

\* join on the group columns, then
\* with_columns(output_type_id = arange(start, start + count).over(group, horizon))
\* and drop of the two helper columns: row i gets start + its rank within
\* its (group, horizon) window.  The new ids go to the column literally
\* named output_type_id, whatever idx_col is.
assign_sample_indices(model_out, key_cols, hcg) ==
    LET by == group_cols(key_cols)
        start(i) == (CHOOSE k \in DOMAIN hcg :
                        Project(hcg[k], by) = Project(model_out[i], by))
        window(i) == {j \in 1 .. (i - 1) :
                        Project(model_out[j], by \cup {horizon_col})
                            = Project(model_out[i], by \cup {horizon_col})}
    IN  [i \in DOMAIN model_out |->
            WithColumn(model_out[i], "output_type_id",
                hcg[start(i)]["postpredict_horizon_cum_count"] + Cardinality(window(i)))]

replace_sample_indices(model_out, key_cols, order) ==
    Bind(horizon_count_by_group(model_out, key_cols, order),
         LAMBDA hcg : assign_sample_indices(model_out, key_cols, hcg))

\* f"postpredict_{horizon_col}{h}"
wide_col_name(h) == "postpredict_" \o horizon_col \o ToString(h)

\* [f"postpredict_{horizon_col}{h}" for h in range(min_horizon, max_horizon + 1)]
wide_horizon_cols_of(model_out) ==
    [i \in 1 .. (max_horizon(model_out) - min_horizon(model_out) + 1) |->
        wide_col_name(min_horizon(model_out) + i - 1)]

\* the distinct values of df[cols], in order of first appearance
RECURSIVE unique_rows(_, _, _)
unique_rows(df, cols, n) ==
    IF n = 0 THEN <<>>
    ELSE LET before == unique_rows(df, cols, n - 1)
             k == Project(df[n], cols)
         IN  IF \E j \in 1 .. (n - 1) : Project(df[j], cols) = k
             THEN before
             ELSE Append(before, k)

\* polars pivot(on=horizon_col, index=None, values=pred_col) after the
\* horizon values were renamed to column names: index=None makes every
\* column other than horizon_col and pred_col an index column; there is one
\* output row per distinct index, a null where an index has no row for a
\* horizon, and an error where it has several (aggregate_function=None).
pivot_has_duplicates(df) ==
    \E i, j \in DOMAIN df :
        /\ i # j
        /\ Project(df[i], DOMAIN df[i] \ {pred_col}) = Project(df[j], DOMAIN df[j] \ {pred_col})

pivot_cell(df, index, k, c) ==
    LET hit == {i \in DOMAIN df : /\ Project(df[i], index) = k
                                  /\ wide_col_name(df[i][horizon_col]) = c}
    IN  IF hit = {} THEN Null ELSE df[CHOOSE i \in hit : TRUE][pred_col]

pivot_rows(df, index, on, rows) ==
    [n \in DOMAIN rows |->
        [c \in index \cup on |->
            IF c \in index THEN rows[n][c] ELSE pivot_cell(df, index, rows[n], c)]]

pivot(df) ==
    LET index == DOMAIN df[1] \ {horizon_col, pred_col}
        on == {wide_col_name(df[i][horizon_col]) : i \in DOMAIN df}
    IN  Bind(unique_rows(df, index, Len(df)), LAMBDA rows : pivot_rows(df, index, on, rows))

\* the two ValueErrors of _pivot_horizon, told apart by their messages
HorizonsError == "ValueError: all integer horizons"

CountsError == "ValueError: same number of predictions for each horizon"

\* the two checks on horizon_counts hc, in the order the code makes them
pivot_checks(hc, key_cols, expected) ==
    IF ~ all_groups_match_expected(hc, key_cols, expected) THEN HorizonsError
    ELSE IF any_n_unique_above_one(n_unique_horizon_counts(hc, key_cols)) THEN CountsError
    ELSE "none"

\* the checks _pivot_horizon makes before it changes anything, in the
\* order it makes them: the exception raised, or "none"
\* a variant of pivot_validation that reports an object without key_cols as
\* an input that fails the horizon check
pivot_validation_unfit_as_invalid(obj, model_out) ==
    IF model_out = <<>> THEN "TypeError"
    ELSE IF "key_cols" \notin DOMAIN obj THEN HorizonsError
    ELSE Bind(horizon_counts(model_out, obj.key_cols),
              LAMBDA hc : pivot_checks(hc, obj.key_cols, expected_horizons(model_out)))

pivot_validation(obj, model_out) ==
    IF model_out = <<>> THEN "TypeError"
    ELSE IF "key_cols" \notin DOMAIN obj THEN "AttributeError"
    ELSE Bind(horizon_counts(model_out, obj.key_cols),
              LAMBDA hc : pivot_checks(hc, obj.key_cols, expected_horizons(model_out)))

\* the whole of _pivot_horizon: what it raises, what it returns, and the
\* attribute it sets on the way.  idx_col is accepted and never read.
pivot_renumbered(obj, model_out, df) ==
    LET obj2 == WithColumn(obj, "wide_horizon_cols", wide_horizon_cols_of(model_out))
    IN  IF pivot_has_duplicates(df)
        THEN [raised |-> "ComputeError", ret |-> NoValue, obj |-> obj2]
        ELSE [raised |-> "none", ret |-> pivot(df), obj |-> obj2]

\* a variant of pivot_horizon that saves the wide column names before it
\* validates the input
pivot_horizon_names_first(obj, model_out, idx_col, order) ==
    Bind(pivot_validation(obj, model_out),
         LAMBDA v :
            IF v \in {"TypeError", "AttributeError"}
            THEN [raised |-> v, ret |-> NoValue, obj |-> obj]
            ELSE IF v # "none"
            THEN [raised |-> v, ret |-> NoValue,
                  obj |-> WithColumn(obj, "wide_horizon_cols", wide_horizon_cols_of(model_out))]
            ELSE Bind(replace_sample_indices(model_out, obj.key_cols, order),
                      LAMBDA df : pivot_renumbered(obj, model_out, df)))

pivot_horizon(obj, model_out, idx_col, order) ==
    Bind(pivot_validation(obj, model_out),
         LAMBDA v :
            IF v # "none"
            THEN [raised |-> v, ret |-> NoValue, obj |-> obj]
            ELSE Bind(replace_sample_indices(model_out, obj.key_cols, order),
                      LAMBDA df : pivot_renumbered(obj, model_out, df)))

\* the orders polars may return the (key_cols, reference_time) groups in;
\* the order is read only once the checks have passed
group_orders(model_out, obj) ==
    IF pivot_validation(obj, model_out) # "none"
    THEN {<<>>}
    ELSE Orderings({Project(model_out[i], group_cols(obj.key_cols)) : i \in DOMAIN model_out})

-----------------------------------------------------------------------------
(* Random sources.  A generator is a state that every draw advances; the   *)
(* same state gives the same draws.  self.rng is the numpy Generator the   *)
(* postprocessor was constructed with; np_random is the state behind the   *)
(* module-level functions np.random.*, one per process.  The n values of   *)
(* one draw are distinct, as n doubles are.                                *)

rng_next(state) == (5 * state + 3) % Cardinality(RngStates)

RECURSIVE rng_advance(_, _)
rng_advance(state, n) == IF n = 0 THEN state ELSE rng_advance(rng_next(state), n - 1)

\* random(n): the n values drawn from a generator in this state
random_values(state, n) == [i \in 1 .. n |-> rng_advance(state, i)]

-----------------------------------------------------------------------------
(* argsort_random_tiebreak (util.py:4-14).  Indices count from 1 here and  *)
(* from 0 in numpy.                                                        *)

\* the order of the structured array's elements: by value, then by the
\* random number
sorts_before(arr, random, i, j) ==
    \/ arr[i] < arr[j]
    \/ arr[i] = arr[j] /\ random[i] < random[j]

\* np.argsort(structured_array, order=("values", "random"))
argsort_structured(arr, random) ==
    [k \in DOMAIN arr |->
        CHOOSE i \in DOMAIN arr :
            Cardinality({j \in DOMAIN arr : sorts_before(arr, random, j, i)}) = k - 1]

\* def argsort_random_tiebreak(arr): the random values come from
\* np.random.random(len(arr)), the process-global generator, whose state
\* np_state the call advances; the function has no other parameter
argsort_random_tiebreak(arr, np_state) ==
    [sorted_indices |-> argsort_structured(arr, random_values(np_state, Len(arr))),
     np_random |-> rng_advance(np_state, Len(arr))]

\* Python's binding of a call argsort_random_tiebreak(...) to that def: a
\* call with one positional argument and no keyword runs the function; a
\* second positional argument or a keyword (rng = ...) is a TypeError
call_argsort_random_tiebreak(n_positional, keywords, arr, np_state) ==
    IF n_positional = 1 /\ keywords = {}
    THEN [raised |-> "none",
          ret |-> argsort_random_tiebreak(arr, np_state).sorted_indices,
          np_random |-> argsort_random_tiebreak(arr, np_state).np_random]
    ELSE [raised |-> "TypeError", ret |-> NoValue, np_random |-> np_state]

-----------------------------------------------------------------------------
(* _apply_shuffle (dependence.py:141-185).                                 *)

\* templates[:, i]
template_column(templates, i) == [r \in DOMAIN templates |-> templates[r][i]]

\* col_orderings: the calls argsort_random_tiebreak(templates[:, i],
\* rng = self.rng), one per value column in order, each starting from the
\* state of np.random the one before left
RECURSIVE col_orderings(_, _, _, _)
col_orderings(value_cols, templates, np_state, i) ==
    IF i = 0 THEN <<>>
    ELSE LET before == col_orderings(value_cols, templates, np_state, i - 1)
             state == IF i = 1 THEN np_state ELSE before[i - 1].np_random
         IN  Append(before,
                call_argsort_random_tiebreak(1, {"rng"}, template_column(templates, i), state))

\* pl.col(c).sort(): the column's values in ascending order
sort_column(df, c) ==
    [k \in DOMAIN df |->
        df[CHOOSE i \in DOMAIN df :
                Cardinality({j \in DOMAIN df :
                    \/ df[j][c] < df[i][c]
                    \/ df[j][c] = df[i][c] /\ j < i}) = k - 1][c]]

\* the loop of lines 180-185: in each value column, row ordering[k] gets the
\* k-th smallest value of the column; every other column is the clone's
shuffle_columns(wide_model_out, value_cols, orderings) ==
    [r \in DOMAIN wide_model_out |->
        [c \in DOMAIN wide_model_out[r] |->
            IF \E i \in DOMAIN value_cols : value_cols[i] = c
            THEN LET i == CHOOSE i \in DOMAIN value_cols : value_cols[i] = c
                     k == CHOOSE k \in DOMAIN orderings[i].ret : orderings[i].ret[k] = r
                 IN  sort_column(wide_model_out, c)[k]
            ELSE wide_model_out[r][c]]]

apply_shuffle_with(wide_model_out, value_cols, orderings, np_state) ==
    IF \E i \in DOMAIN orderings : orderings[i].raised # "none"
    THEN [raised |-> orderings[CHOOSE i \in DOMAIN orderings :
                                /\ orderings[i].raised # "none"
                                /\ \A j \in 1 .. (i - 1) : orderings[j].raised = "none"].raised,
          ret |-> NoValue,
          np_random |-> np_state]
    ELSE [raised |-> "none",
          ret |-> shuffle_columns(wide_model_out, value_cols, orderings),
          np_random |-> IF orderings = <<>> THEN np_state
                        ELSE orderings[Len(orderings)].np_random]

\* the whole of _apply_shuffle.  The first call of argsort_random_tiebreak
\* raises, so the dict comprehension stops there.
apply_shuffle(obj, wide_model_out, value_cols, templates, np_state) ==
    IF "rng" \notin DOMAIN obj /\ value_cols # <<>>
    THEN [raised |-> "AttributeError", ret |-> NoValue, np_random |-> np_state]
    ELSE Bind(col_orderings(value_cols, templates, np_state, Len(value_cols)),
              LAMBDA orderings :
                    apply_shuffle_with(wide_model_out, value_cols, orderings, np_state))


-----------------------------------------------------------------------------
(* Schaake: construction, fit, and the templates of one group              *)
(* (dependence.py:364-415), with the EqualWeighter (weighters.py:12-37).   *)

\* df[cols]
select(df, cols) == [r \in DOMAIN df |-> Project(df[r], Range(cols))]

SetAttr(obj, name, v) == [a \in DOMAIN obj \cup {name} |-> IF a = name THEN v ELSE obj[a]]

\* Schaake(rng = seed): the default weighter, the generator given
Schaake(seed) == [weighter |-> "EqualWeighter", rng |-> seed]

\* fit saves its arguments
fit(obj, df, key_cols, time_col, obs_col, feat_cols) ==
    [a \in DOMAIN obj \cup {"df", "key_cols", "time_col", "obs_col", "feat_cols"} |->
        CASE a = "df" -> df
          [] a = "key_cols" -> key_cols
          [] a = "time_col" -> time_col
          [] a = "obs_col" -> obs_col
          [] a = "feat_cols" -> feat_cols
          [] OTHER -> obj[a]]

\* Weights are exact fractions: a row of the matrix is its numerators and
\* their common denominator; a denominator 0 stands for a row of NaN (0 / 0).

\* EqualWeighter.get_weights(train_X, test_X): an n_test by n_train matrix
\* whose every entry is 1 / n_train; 1 / 0 raises
get_weights(train_X, test_X) ==
    IF Len(train_X) = 0
    THEN [raised |-> "ZeroDivisionError", shape |-> NoValue, rows |-> NoValue]
    ELSE [raised |-> "none", shape |-> <<Len(test_X), Len(train_X)>>,
          rows |-> [i \in DOMAIN test_X |->
                        [num |-> [j \in DOMAIN train_X |-> 1], den |-> Len(train_X)]]]

\* the weighter of test_schaake_build_templates_unequal_weights, with the
\* location in the place of the age group: weights proportional to the
\* population of the training row if the locations match, 0 otherwise,
\* divided by their sum over the row
PopSizeWeighter_num(train_X, test_row) ==
    [j \in DOMAIN train_X |->
        IF test_row["location"] = train_X[j]["location"] THEN train_X[j]["population"] ELSE 0]

PopSizeWeighter_get_weights(train_X, test_X) ==
    [raised |-> "none", shape |-> <<Len(test_X), Len(train_X)>>,
     rows |-> [i \in DOMAIN test_X |->
                    [num |-> PopSizeWeighter_num(train_X, test_X[i]),
                     den |-> SumSeq(PopSizeWeighter_num(train_X, test_X[i]))]]]

\* self.weighter.get_weights(...)
weighter_get_weights(weighter, train_X, test_X) ==
    IF weighter = "EqualWeighter" THEN get_weights(train_X, test_X)
    ELSE PopSizeWeighter_get_weights(train_X, test_X)

\* UnivariateGaussianKernel (weighters.py:38-70), on arrays of one feature.
\* The parameter h is given by half_over_h = 0.5 / (h * ln 2), so that
\* np.exp(-0.5 / h * d ** 2) is the power of two 2^(-half_over_h * d^2).

RECURSIVE pow2(_)
pow2(n) == IF n = 0 THEN 1 ELSE 2 * pow2(n - 1)

UnivariateGaussianKernel(half_over_h) ==
    [kind |-> "UnivariateGaussianKernel", half_over_h |-> half_over_h]

\* np.exp(-0.5 / h * d ** 2) in units of 2^(-MaxExponent); a result below
\* the floating-point range is 0.0
prop_weight(half_over_h, d) ==
    IF half_over_h * d * d > MaxExponent THEN 0
    ELSE pow2(MaxExponent - half_over_h * d * d)

prop_weights(half_over_h, train_X, test_x) ==
    [j \in DOMAIN train_X |-> prop_weight(half_over_h, test_x - train_X[j])]

\* prop_weights / np.sum(prop_weights, axis = 1, keepdims = True): a row of
\* sum 0 is a row of NaN (0.0 / 0.0 raises nothing), no row raises nothing
UnivariateGaussianKernel_get_weights(weighter, train_X, test_X) ==
    [raised |-> "none", shape |-> <<Len(test_X), Len(train_X)>>,
     rows |-> [i \in DOMAIN test_X |->
                    [num |-> prop_weights(weighter.half_over_h, train_X, test_X[i]),
                     den |-> SumSeq(prop_weights(weighter.half_over_h, train_X, test_X[i]))]]]

\* a variant of searchsorted that counts the entries strictly below the
\* draw (side = 'left')
searchsorted_left(num, den, draw) ==
    Cardinality({j \in DOMAIN num :
        SumSeq(SubSeq(num, 1, j)) * Cardinality(RngStates) < draw * den})

\* cdf.searchsorted(uniform_sample, side = 'right') for cdf = cumsum(p): the
\* number of entries of the cdf at or below the draw
searchsorted(num, den, draw) ==
    Cardinality({j \in DOMAIN num :
        SumSeq(SubSeq(num, 1, j)) * Cardinality(RngStates) <= draw * den})

\* a variant of choice that takes the first category whatever the draw
choice_first(draw, weight) == 1

\* rng.choice(n_train, size = 1, p = weights[i, :])[0] from one uniform draw:
\* the category whose share of [0, 1) holds the draw (counted from 1)
choice(draw, weight) == searchsorted(weight.num, weight.den, draw) + 1

\* rng.choice raises ValueError for no category and for probabilities that
\* are NaN
choice_raises(weight) == Len(weight.num) = 0 \/ weight.den = 0

\* self.train_Y[selected_inds, :].to_numpy()
templates_of(train_Y, train_Y_cols, selected_inds) ==
    [i \in DOMAIN selected_inds |->
        [k \in DOMAIN train_Y_cols |-> train_Y[selected_inds[i]][train_Y_cols[k]]]]

\* the draws of lines 409-410, one per row of the weights, up to the first
\* that raises
build_templates_with(obj, weights) ==
    IF weights.raised # "none"
    THEN [raised |-> weights.raised, ret |-> NoValue, rng |-> obj.rng]
    ELSE IF \E i \in DOMAIN weights.rows : choice_raises(weights.rows[i])
    THEN [raised |-> "ValueError", ret |-> NoValue,
          rng |-> rng_advance(obj.rng,
                    Min({i \in DOMAIN weights.rows : choice_raises(weights.rows[i])}) - 1)]
    ELSE [raised |-> "none",
          ret |-> templates_of(obj.train_Y, obj.shift_varnames,
                    [i \in 1 .. weights.shape[1] |->
                        choice(rng_advance(obj.rng, i), weights.rows[i])]),
          rng |-> rng_advance(obj.rng, weights.shape[1])]

\* _build_templates: one draw of self.rng per row of the group
build_templates(obj, wide_model_out) ==
    IF \E a \in {"weighter", "train_X", "feat_cols", "train_Y", "rng"} : a \notin DOMAIN obj
    THEN [raised |-> "AttributeError", ret |-> NoValue, rng |-> NoValue]
    ELSE IF \E r \in DOMAIN wide_model_out : ~ (Range(obj.feat_cols) \subseteq DOMAIN wide_model_out[r])
    THEN [raised |-> "ColumnNotFoundError", ret |-> NoValue, rng |-> obj.rng]
    ELSE build_templates_with(obj,
            weighter_get_weights(obj.weighter, obj.train_X,
                                 select(wide_model_out, obj.feat_cols)))

-----------------------------------------------------------------------------
(* _build_train_X_Y (dependence.py:188-277) and marginal_pit               *)
(* (metrics.py:79-132), which its PIT mode calls.                          *)

shift_varname(obs_col, h) ==
    IF h < 0 THEN obs_col \o "_shift_m" \o ToString(0 - h)
    ELSE obs_col \o "_shift_p" \o ToString(h)

shift_varnames_of(obs_col, min_h, max_h) ==
    [i \in 1 .. (max_h - min_h + 1) |-> shift_varname(obs_col, min_h + i - 1)]

\* a variant of time_rank that takes the rows of a key group in the order
\* the frame lists them in
time_rank_by_row_order(df, key_cols, time_col, r) ==
    Cardinality({j \in DOMAIN df :
        /\ Project(df[j], Range(key_cols)) = Project(df[r], Range(key_cols))
        /\ j < r})

\* the position of row r among the rows of its key group, by time_col
time_rank(df, key_cols, time_col, r) ==
    Cardinality({j \in DOMAIN df :
        /\ Project(df[j], Range(key_cols)) = Project(df[r], Range(key_cols))
        /\ \/ df[j][time_col] < df[r][time_col]
           \/ df[j][time_col] = df[r][time_col] /\ j < r})

\* pl.col(obs_col).shift(-h).over(key_cols, order_by = time_col) at row r:
\* the observation h positions later in the row's key group, or null
shifted(df, key_cols, time_col, obs_col, h, r) ==
    LET target == {j \in DOMAIN df :
                    /\ Project(df[j], Range(key_cols)) = Project(df[r], Range(key_cols))
                    /\ time_rank(df, key_cols, time_col, j)
                        = time_rank(df, key_cols, time_col, r) + h}
    IN  IF target = {} THEN Null ELSE df[CHOOSE j \in target : TRUE][obs_col]

\* a variant of with_shift_columns whose last shift also overwrites the
\* observed column
with_shift_columns_in_place(df, key_cols, time_col, obs_col, min_h, max_h) ==
    [r \in DOMAIN df |->
        [c \in DOMAIN df[r] \cup {shift_varname(obs_col, h) : h \in min_h .. max_h} |->
            IF c = obs_col
            THEN shifted(df, key_cols, time_col, obs_col, max_h, r)
            ELSE IF \E h \in min_h .. max_h : shift_varname(obs_col, h) = c
            THEN shifted(df, key_cols, time_col, obs_col,
                         CHOOSE h \in min_h .. max_h : shift_varname(obs_col, h) = c, r)
            ELSE df[r][c]]]

\* self.df after the loop of lines 235-249
with_shift_columns(df, key_cols, time_col, obs_col, min_h, max_h) ==
    [r \in DOMAIN df |->
        [c \in DOMAIN df[r] \cup {shift_varname(obs_col, h) : h \in min_h .. max_h} |->
            IF \E h \in min_h .. max_h : shift_varname(obs_col, h) = c
            THEN shifted(df, key_cols, time_col, obs_col,
                         CHOOSE h \in min_h .. max_h : shift_varname(obs_col, h) = c, r)
            ELSE df[r][c]]]

\* the columns that hold strings; their cells are never null in the frames
\* of the model
string_cols == {"location"}

is_null(row, c) == c \notin string_cols /\ row[c] = Null

\* df.drop_nulls()
drop_nulls(df) == SelectSeq(df, LAMBDA row : \A c \in DOMAIN row : ~ is_null(row, c))

\* df.filter(obs_mask): the rows whose entry of the mask is True; obs_mask
\* = None (no value) stands for the mask True, which keeps every row
RECURSIVE filter(_, _, _)
filter(df, obs_mask, k) ==
    IF k = 0 THEN <<>>
    ELSE filter(df, obs_mask, k - 1)
         \o (IF obs_mask = NoValue \/ obs_mask[k] THEN <<df[k]>> ELSE <<>>)

\* a variant of mask_and_dropnull that masks the observations before they
\* are looked at for null shifted values, so that no row is dropped
mask_and_dropnull_keeping_nulls(df, obs_mask) == filter(df, obs_mask, Len(df))

\* self.df.filter(obs_mask).drop_nulls(), line 253
mask_and_dropnull(df, obs_mask) == drop_nulls(filter(df, obs_mask, Len(df)))

\* marginal_pit (metrics.py:79-132) ---------------------------------------

pit_col_name(pred_c) == "pit_" \o pred_c

\* model_out_wide.join(obs_data_wide, on = key_cols): the pairs of a row of
\* each frame that agree on key_cols
joined_pairs(model_out_wide, obs_data_wide, key_cols) ==
    {p \in (DOMAIN model_out_wide) \X (DOMAIN obs_data_wide) :
        Project(model_out_wide[p[1]], Range(key_cols))
            = Project(obs_data_wide[p[2]], Range(key_cols))}

\* the units of the joined frame, in the orders group_by may list them
unit_orders(model_out_wide, obs_data_wide, key_cols) ==
    Orderings({Project(model_out_wide[p[1]], Range(key_cols)) :
                    p \in joined_pairs(model_out_wide, obs_data_wide, key_cols)})

\* (pl.col(pred_c) <= pl.col(obs_c)).mean() over the joined rows of one
\* unit: the fraction as the pair <<numerator, denominator>>
pit_value(model_out_wide, obs_data_wide, pairs, pred_c, obs_c) ==
    <<Cardinality({p \in pairs :
            model_out_wide[p[1]][pred_c] <= obs_data_wide[p[2]][obs_c]}),
      Cardinality(pairs)>>

\* the row of one unit: its key columns, then pit_<pred_c> for each pair of
\* zip(pred_cols, obs_cols)
pit_row(model_out_wide, obs_data_wide, key_cols, pred_cols, obs_cols, unit) ==
    LET pairs == {p \in joined_pairs(model_out_wide, obs_data_wide, key_cols) :
                    Project(model_out_wide[p[1]], Range(key_cols)) = unit}
    IN  [c \in Range(key_cols) \cup {pit_col_name(pred_cols[i]) : i \in DOMAIN pred_cols} |->
            IF c \in Range(key_cols) THEN unit[c]
            ELSE LET i == CHOOSE i \in DOMAIN pred_cols : pit_col_name(pred_cols[i]) = c
                 IN  pit_value(model_out_wide, obs_data_wide, pairs,
                               pred_cols[i], obs_cols[i])]

marginal_pit(model_out_wide, obs_data_wide, key_cols, pred_cols, obs_cols, order) ==
    [k \in DOMAIN order |->
        pit_row(model_out_wide, obs_data_wide, key_cols, pred_cols, obs_cols, order[k])]

\* the parameters of marginal_pit, and the ones without a default
marginal_pit_params ==
    {"model_out_wide", "obs_data_wide", "key_cols", "pred_cols", "obs_cols", "reduce_mean"}

marginal_pit_required ==
    {"model_out_wide", "obs_data_wide", "key_cols", "pred_cols", "obs_cols"}

\* a call of marginal_pit with keyword arguments only: a keyword that is no
\* parameter, or a parameter left without a value, is a TypeError
call_marginal_pit(keywords, model_out_wide, obs_data_wide, key_cols, pred_cols, obs_cols, order) ==
    IF ~ (keywords \subseteq marginal_pit_params) \/ ~ (marginal_pit_required \subseteq keywords)
    THEN [raised |-> "TypeError", ret |-> NoValue]
    ELSE [raised |-> "none",
          ret |-> marginal_pit(model_out_wide, obs_data_wide, key_cols, pred_cols,
                               obs_cols, order)]

\* energy_score (metrics.py:6-76) -----------------------------------------

\* a missing score (np.nan): a fraction without a denominator
NaN == [num |-> 0, den |-> 0]

isqrt(n) == CHOOSE r \in 0 .. n : r * r <= n /\ (r + 1) * (r + 1) > n

\* pairwise_distances of sklearn: the Euclidean distance of two rows, over
\* the columns xcols of x and the matching columns ycols of y
euclidean_distance(x, xcols, y, ycols) ==
    isqrt(DistancePrecision * DistancePrecision
            * SumSeq([k \in DOMAIN xcols |->
                        (x[xcols[k]] - y[ycols[k]]) * (x[xcols[k]] - y[ycols[k]])]))

\* the sum of f over the set S
RECURSIVE SumOver(_, _)
SumOver(S, f) ==
    IF S = {} THEN 0
    ELSE LET x == CHOOSE x \in S : TRUE IN f[x] + SumOver(S \ {x}, f)

\* energy_score_one_unit, lines 49-63, on the joined rows of one unit: NaN
\* when a predicted or observed cell of the unit is null, else
\* mean(d(sample, observation)) - 0.5 * mean(d(sample, sample)); the
\* observation is that of the first joined row, df[0, obs_cols]
energy_score_one_unit(model_out_wide, obs_data_wide, pairs, pred_cols, obs_cols) ==
    IF \E p \in pairs :
            \/ \E k \in DOMAIN pred_cols : is_null(model_out_wide[p[1]], pred_cols[k])
            \/ \E k \in DOMAIN obs_cols : is_null(obs_data_wide[p[2]], obs_cols[k])
    THEN NaN
    ELSE LET n == Cardinality(pairs)
             first == CHOOSE p \in pairs : \A q \in pairs :
                            p[1] < q[1] \/ (p[1] = q[1] /\ p[2] <= q[2])
             to_obs == SumOver(pairs, [p \in pairs |->
                            euclidean_distance(model_out_wide[p[1]], pred_cols,
                                               obs_data_wide[first[2]], obs_cols)])
             among == SumOver(pairs \X pairs, [pq \in pairs \X pairs |->
                            euclidean_distance(model_out_wide[pq[1][1]], pred_cols,
                                               model_out_wide[pq[2][1]], pred_cols)])
         IN  [num |-> 2 * n * to_obs - among, den |-> 2 * n * n * DistancePrecision]

\* the row of one unit, line 63: its key columns and energy_score
energy_score_row(model_out_wide, obs_data_wide, key_cols, pred_cols, obs_cols, unit) ==
    LET pairs == {p \in joined_pairs(model_out_wide, obs_data_wide, key_cols) :
                    Project(model_out_wide[p[1]], Range(key_cols)) = unit}
    IN  WithColumn(unit, "energy_score",
            energy_score_one_unit(model_out_wide, obs_data_wide, pairs, pred_cols, obs_cols))

\* lines 65-70: the scores of the units of the joined frame, in the order
\* group_by lists the units
scores_by_unit(model_out_wide, obs_data_wide, key_cols, pred_cols, obs_cols, order) ==
    [k \in DOMAIN order |->
        energy_score_row(model_out_wide, obs_data_wide, key_cols, pred_cols, obs_cols,
                         order[k])]

\* the product of f over the set S
RECURSIVE ProductOver(_, _)
ProductOver(S, f) ==
    IF S = {} THEN 1
    ELSE LET x == CHOOSE x \in S : TRUE IN f[x] * ProductOver(S \ {x}, f)

\* Series.mean() of fractions: their sum over their number, as one fraction
mean(fractions) ==
    LET dens == [k \in DOMAIN fractions |-> fractions[k].den]
    IN  [num |-> SumOver(DOMAIN fractions, [k \in DOMAIN fractions |->
                    fractions[k].num * ProductOver((DOMAIN fractions) \ {k}, dens)]),
         den |-> Cardinality(DOMAIN fractions) * ProductOver(DOMAIN fractions, dens)]

\* a variant of fill_nan_mean without fill_nan: the mean of a column that
\* holds a NaN is NaN
mean_with_nan(scores) ==
    IF \E k \in DOMAIN scores : scores[k].energy_score = NaN THEN NaN
    ELSE mean([k \in DOMAIN scores |-> scores[k].energy_score])

\* Series.fill_nan(None).mean(), line 76: the mean of the scores that are
\* not NaN, None (no value) when there is none
fill_nan_mean(scores) ==
    LET kept == {k \in DOMAIN scores : scores[k].energy_score # NaN}
    IN  IF kept = {} THEN NoValue
        ELSE mean([k \in kept |-> scores[k].energy_score])

energy_score(model_out_wide, obs_data_wide, key_cols, pred_cols, obs_cols, reduce_mean, order) ==
    LET scores == scores_by_unit(model_out_wide, obs_data_wide, key_cols, pred_cols,
                                 obs_cols, order)
    IN  IF ~ reduce_mean THEN scores ELSE fill_nan_mean(scores)

\* the parameters of energy_score, lines 6-8, and the ones without a default
energy_score_params ==
    {"model_out_wide", "obs_data_wide", "key_cols", "pred_cols", "obs_cols", "reduce_mean"}

energy_score_required ==
    {"model_out_wide", "obs_data_wide", "key_cols", "pred_cols", "obs_cols"}

\* a call of energy_score with keyword arguments only: a keyword that is no
\* parameter, or a parameter left without a value, is a TypeError
call_energy_score(keywords, a, order) ==
    IF ~ (keywords \subseteq energy_score_params) \/ ~ (energy_score_required \subseteq keywords)
    THEN [raised |-> "TypeError", ret |-> NoValue]
    ELSE [raised |-> "none",
          ret |-> energy_score(a.model_out_wide, a.obs_data_wide, a.key_cols, a.pred_cols,
                               a.obs_cols, a.reduce_mean, order)]

\* _build_train_X_Y, lines 251-277 ----------------------------------------

\* df.with_columns(pl.col(time_col).alias(ref_col))
with_reference_time(df, time_col, ref_col) ==
    [r \in DOMAIN df |-> WithColumn(df[r], ref_col, df[r][time_col])]

\* pit_values.join(wide_model_out[cols].unique(), on = on, how = 'left'):
\* every row of pit_values with the columns of its match; in the frames of
\* the model the features of a unit are the same in all of its rows, so a
\* row has one match
join_features(pit_values, wide_model_out, on, cols) ==
    [r \in DOMAIN pit_values |->
        LET match == CHOOSE m \in DOMAIN wide_model_out :
                        Project(wide_model_out[m], Range(on)) = Project(pit_values[r], Range(on))
        IN  [c \in DOMAIN pit_values[r] \cup Range(cols) |->
                IF c \in DOMAIN pit_values[r] THEN pit_values[r][c]
                ELSE wide_model_out[match][c]]]

\* the keywords of the call of marginal_pit in line 257-263
pit_call_keywords == {"model_out_wide", "obs_data_wide", "index_cols", "pred_cols", "obs_cols"}

\* lines 256-271: what the branch raises and train_X_Y_source
pit_values_of(obj, df_mask_and_dropnull, wide_model_out, ref_col, order) ==
    LET index_cols == obj.key_cols \o <<ref_col>>
        pit == call_marginal_pit(pit_call_keywords, wide_model_out,
                    with_reference_time(df_mask_and_dropnull, obj.time_col, ref_col),
                    index_cols, obj.wide_horizon_cols, obj.shift_varnames, order)
    IN  IF pit.raised # "none" THEN pit
        ELSE [raised |-> "none",
              ret |-> join_features(pit.ret, wide_model_out, index_cols,
                                    index_cols \o obj.feat_cols)]

\* the object after lines 235-253, before train_X and train_Y are assigned
build_train_X_Y_shifted(obj, names, df) ==
    [a \in DOMAIN obj \cup {"shift_varnames", "df"} |->
        CASE a = "shift_varnames" -> names
          [] a = "df" -> df
          [] OTHER -> obj[a]]

\* lines 255-277 on the object with its shift columns
build_train_X_Y_from(obj, obs_mask, wide_model_out, ref_col, pit_templates, order) ==
    IF ~ pit_templates
    THEN [raised |-> "none",
          obj |-> SetAttr(SetAttr(obj,
                    "train_X", select(mask_and_dropnull(obj.df, obs_mask), obj.feat_cols)),
                    "train_Y", select(mask_and_dropnull(obj.df, obs_mask), obj.shift_varnames))]
    ELSE IF "wide_horizon_cols" \notin DOMAIN obj
    THEN [raised |-> "AttributeError", obj |-> obj]
    ELSE Bind(pit_values_of(obj, mask_and_dropnull(obj.df, obs_mask), wide_model_out,
                            ref_col, order),
              LAMBDA pit :
                IF pit.raised # "none" THEN [raised |-> pit.raised, obj |-> obj]
                ELSE [raised |-> "none",
                      obj |-> SetAttr(SetAttr(obj,
                                "train_X", select(pit.ret, obj.feat_cols)),
                                "train_Y", select(pit.ret,
                                    [i \in DOMAIN obj.wide_horizon_cols |->
                                        pit_col_name(obj.wide_horizon_cols[i])]))])

\* the whole of _build_train_X_Y: what it raises and the object it leaves,
\* with shift_varnames, df, train_X and train_Y set; order is the order
\* marginal_pit's group_by lists the units in
build_train_X_Y(obj, min_h, max_h, obs_mask, wide_model_out, ref_col, pit_templates, order) ==
    IF \E a \in {"df", "key_cols", "time_col", "obs_col", "feat_cols"} : a \notin DOMAIN obj
    THEN [raised |-> "AttributeError", obj |-> SetAttr(obj, "shift_varnames", <<>>)]
    ELSE Bind(with_shift_columns(obj.df, obj.key_cols, obj.time_col, obj.obs_col,
                                 min_h, max_h),
              LAMBDA df : build_train_X_Y_from(
                            build_train_X_Y_shifted(obj,
                                shift_varnames_of(obj.obs_col, min_h, max_h), df),
                            obs_mask, wide_model_out, ref_col, pit_templates, order))

-----------------------------------------------------------------------------
(* transform (dependence.py:45-128) and _transform_one_group (131-138).    *)

\* _transform_one_group: the templates of the group, then the shuffle
transform_one_group_with(obj, wide_model_out, t, np_state) ==
    IF t.raised # "none"
    THEN [raised |-> t.raised, ret |-> NoValue, rng |-> t.rng, np_random |-> np_state]
    ELSE IF "wide_horizon_cols" \notin DOMAIN obj
    THEN [raised |-> "AttributeError", ret |-> NoValue, rng |-> t.rng, np_random |-> np_state]
    ELSE Bind(apply_shuffle(SetAttr(obj, "rng", t.rng), wide_model_out,
                            obj.wide_horizon_cols, t.ret, np_state),
              LAMBDA sh : [raised |-> sh.raised, ret |-> sh.ret, rng |-> t.rng,
                           np_random |-> sh.np_random])

transform_one_group(obj, wide_model_out, np_state) ==
    Bind(build_templates(obj, wide_model_out),
         LAMBDA t : transform_one_group_with(obj, wide_model_out, t, np_state))

\* the rows of one (key_cols, reference_time) group, in their order
group_rows(df, by, g) == SelectSeq(df, LAMBDA row : Project(row, by) = g)

\* group_by(...).map_groups(self._transform_one_group): the groups in the
\* order polars hands them over, each result appended to the ones before;
\* an exception of the group function ends the call
RECURSIVE map_groups(_, _, _, _, _, _)
map_groups(obj, df, by, group_order, np_state, k) ==
    IF k = 0
    THEN [raised |-> "none", ret |-> <<>>, rng |-> obj.rng, np_random |-> np_state]
    ELSE LET before == map_groups(obj, df, by, group_order, np_state, k - 1)
         IN  IF before.raised # "none" THEN before
             ELSE Bind(transform_one_group(SetAttr(obj, "rng", before.rng),
                                           group_rows(df, by, group_order[k]),
                                           before.np_random),
                       LAMBDA one :
                            [raised |-> one.raised,
                             ret |-> IF one.raised = "none" THEN before.ret \o one.ret
                                     ELSE NoValue,
                             rng |-> one.rng,
                             np_random |-> one.np_random])

\* str.slice(len("postpredict_") + len(horizon_col), None).cast(int)
cast_int(str) == CHOOSE h \in (0 - 9) .. 9 : ToString(h) = str

\* a variant of horizon_of_wide_col that loses the sign of the horizon
horizon_of_wide_col_unsigned(name) ==
    LET digits == SubSeq(name, Len("postpredict_") + Len(horizon_col) + 1, Len(name))
    IN  cast_int(IF SubSeq(digits, 1, 1) = "-" THEN SubSeq(digits, 2, Len(digits)) ELSE digits)

horizon_of_wide_col(name) ==
    cast_int(SubSeq(name, Len("postpredict_") + Len(horizon_col) + 1, Len(name)))

\* unpivot(index = pivot_index, on = wide_horizon_cols): for each wide
\* column in turn, one row per wide row
RECURSIVE unpivot(_, _, _, _)
unpivot(wide, pivot_index, on, k) ==
    IF k = 0 THEN <<>>
    ELSE unpivot(wide, pivot_index, on, k - 1)
         \o [r \in DOMAIN wide |->
                [c \in pivot_index \cup {horizon_col, pred_col} |->
                    CASE c = horizon_col -> horizon_of_wide_col(on[k])
                      [] c = pred_col -> wide[r][on[k]]
                      [] OTHER -> wide[r][c]]]

\* transform after the pivot: lines 92-128
transform_pivoted(obj, model_out, wide, group_order, np_state, return_long_format) ==
    LET built == build_train_X_Y(obj, min_horizon(model_out), max_horizon(model_out),
                                 NoValue, wide, reference_time_col, FALSE, <<>>)
    IN  IF built.raised # "none"
        THEN [raised |-> built.raised, ret |-> NoValue, obj |-> built.obj,
              np_random |-> np_state]
        ELSE Bind(map_groups(built.obj, wide, group_cols(obj.key_cols), group_order,
                             np_state, Len(group_order)),
                  LAMBDA m :
                    [raised |-> m.raised,
                     ret |-> IF m.raised # "none" THEN NoValue
                             ELSE IF ~ return_long_format THEN m.ret
                             ELSE unpivot(m.ret,
                                    DOMAIN model_out[1] \ {horizon_col, pred_col},
                                    obj.wide_horizon_cols, Len(obj.wide_horizon_cols)),
                     obj |-> SetAttr(built.obj, "rng", m.rng),
                     np_random |-> m.np_random])

\* the whole of transform: what it raises, what it returns, the object and
\* the state of np.random it leaves; p is what the call of _pivot_horizon
\* in its first line gave
transform(obj, model_out, idx_col, p, group_order, np_state, return_long_format) ==
    IF p.raised # "none"
    THEN [raised |-> p.raised, ret |-> NoValue, obj |-> p.obj, np_random |-> np_state]
    ELSE transform_pivoted(p.obj, model_out, p.ret, group_order, np_state,
                           return_long_format)

\* the orders polars may hand the groups of the wide frame to the group
\* function in
map_group_orders(obj, p) ==
    IF p.raised # "none" THEN {<<>>}
    ELSE Orderings({Project(p.ret[r], group_cols(obj.key_cols)) : r \in DOMAIN p.ret})

-----------------------------------------------------------------------------
(* Long inputs (the shape of the long_model_out fixture of conftest.py).   *)
(* A long input is drawn by giving every (group, horizon) cell a number of *)
(* rows; rows are listed horizon by horizon as unpivot lists them.  Every  *)
(* row has its own value, so that a value found in the output names the    *)
(* input row it came from.  The original sample ids count from 0 within a  *)
(* cell; with reversed, the cells of the last horizon list their samples   *)
(* in the opposite order (samples are independent across horizons).        *)

population(location) == IF location = "a" THEN 100 ELSE 200

sample_value(g, h, p) == 100 * g + 10 * (h - Min(HorizonUniverse) + 1) + p

long_row(g, h, p, n, idx_col, reversed) ==
    [c \in {"location", "population", reference_time_col, horizon_col, idx_col, pred_col} |->
        CASE c = "location" -> GroupUniverse[g][1]
          [] c = "population" -> population(GroupUniverse[g][1])
          [] c = reference_time_col -> GroupUniverse[g][2]
          [] c = horizon_col -> h
          [] c = idx_col -> IF reversed /\ h = Max(HorizonUniverse) THEN n - p ELSE p - 1
          [] c = pred_col -> sample_value(g, h, p)]

\* the cells in listing order: horizon-major, groups in GroupUniverse order
cell_horizon(k) == Min(HorizonUniverse) + ((k - 1) \div Len(GroupUniverse))

cell_group(k) == ((k - 1) % Len(GroupUniverse)) + 1

RECURSIVE long_rows(_, _, _, _)
long_rows(cnt, idx_col, reversed, k) ==
    IF k = 0 THEN <<>>
    ELSE long_rows(cnt, idx_col, reversed, k - 1)
         \o [p \in 1 .. cnt[cell_group(k), cell_horizon(k)] |->
                long_row(cell_group(k), cell_horizon(k), p,
                         cnt[cell_group(k), cell_horizon(k)], idx_col, reversed)]

long_model_out(cnt, idx_col, reversed) ==
    long_rows(cnt, idx_col, reversed, Len(GroupUniverse) * Cardinality(HorizonUniverse))

\* the first two groups (one location, two reference dates) take any number
\* of rows in every cell; the last group, when present, is complete
LongShapes ==
    {[x \in (1 .. Len(GroupUniverse)) \X HorizonUniverse |->
            IF x[1] = Len(GroupUniverse) THEN c ELSE f[x]]
        : f \in [(1 .. (Len(GroupUniverse) - 1)) \X HorizonUniverse -> 0 .. MaxCount],
          c \in 0 .. MaxCount}

\* the sample-id column name, and whether the original ids are reversed at
\* the last horizon (which only shows when the ids survive the pivot)
IdModes == {<<"output_type_id", FALSE>>, <<"sample_id", FALSE>>, <<"sample_id", TRUE>>}

-----------------------------------------------------------------------------
(* The postprocessor as the tests of _pivot_horizon set it up: constructed *)
(* with a generator, its attributes assigned directly.                     *)

constructed(seed) == [rng |-> seed]

fitted(seed) ==
    [rng |-> seed, key_cols |-> <<"location">>, time_col |-> "date",
     obs_col |-> "value", feat_cols |-> <<"location", "population">>]

-----------------------------------------------------------------------------
(* Specification SpecPivot: one call of _pivot_horizon on any long input.  *)

InitPivot ==
    /\ self = fitted(0)
    /\ np_random = 0
    /\ op = "none"
    /\ \E cnt \in LongShapes, m \in IdModes :
            args = [model_out |-> long_model_out(cnt, m[1], m[2]), idx_col |-> m[1]]
    /\ ret = NoValue
    /\ raised = "none"
    /\ history = <<>>

PivotHorizon ==
    /\ op = "none"
    /\ \E order \in group_orders(args.model_out, self) :
        \E r \in {pivot_horizon(self, args.model_out, args.idx_col, order)} :
            /\ self' = r.obj
            /\ ret' = r.ret
            /\ raised' = r.raised
            /\ history' = Append(history, <<r.ret, r.raised>>)
    /\ op' = "_pivot_horizon"
    /\ UNCHANGED <<np_random, args>>

NextPivot == PivotHorizon

SpecPivot == InitPivot /\ [][NextPivot]_vars


-----------------------------------------------------------------------------
(* Specification SpecRoundTrip: _pivot_horizon on any long input, then the *)
(* long-format step of transform (dependence.py:109-126) on its result.    *)

Unpivot ==
    /\ op = "_pivot_horizon"
    /\ raised = "none"
    /\ ret' = unpivot(ret, DOMAIN args.model_out[1] \ {horizon_col, pred_col},
                      self.wide_horizon_cols, Len(self.wide_horizon_cols))
    /\ op' = "unpivot"
    /\ history' = Append(history, <<ret', "none">>)
    /\ UNCHANGED <<self, np_random, args, raised>>

NextRoundTrip == PivotHorizon \/ Unpivot

SpecRoundTrip == InitPivot /\ [][NextRoundTrip]_vars

-----------------------------------------------------------------------------
(* Specification SpecShuffle: a caller runs one operation twice on the     *)
(* same inputs, the second time after constructing the postprocessor anew  *)
(* with an identically seeded generator, as a caller who wants the run     *)
(* reproduced does.  The operation is _apply_shuffle on one wide group and *)
(* its templates, or a direct call of argsort_random_tiebreak on the first *)
(* template column, with or without the generator.  The state of np.random *)
(* is whatever the process left it in.                                     *)

shuffle_value_cols == <<wide_col_name(0), wide_col_name(1)>>

wide_group(values, value_cols) ==
    [r \in DOMAIN values |->
        [c \in {"location", "output_type_id"} \cup Range(value_cols) |->
            CASE c = "location" -> "a"
              [] c = "output_type_id" -> r - 1
              [] OTHER -> values[r][CHOOSE i \in DOMAIN value_cols : value_cols[i] = c]]]

ShuffleCalls ==
    {"_apply_shuffle", "argsort_random_tiebreak(arr)", "argsort_random_tiebreak(arr, rng)"}

InitShuffle ==
    /\ \E seed \in RngStates, n \in 1 .. MaxRows, value_cols \in {<<>>, shuffle_value_cols},
          call \in ShuffleCalls :
        \E values, templates \in [1 .. n -> [DOMAIN value_cols -> SampleValues \cup TemplateValues]] :
            /\ \A r \in 1 .. n, i \in DOMAIN value_cols :
                    values[r][i] \in SampleValues /\ templates[r][i] \in TemplateValues
            /\ call # "_apply_shuffle" => value_cols # <<>> /\ values = templates
            /\ self = constructed(seed)
            /\ args = [seed |-> seed, call |-> call, value_cols |-> value_cols,
                       wide_model_out |-> wide_group(values, value_cols),
                       templates |-> templates]
    /\ np_random \in RngStates
    /\ op = "none"
    /\ ret = NoValue
    /\ raised = "none"
    /\ history = <<>>

Returned(r, name) ==
    /\ ret' = r.ret
    /\ raised' = r.raised
    /\ np_random' = r.np_random
    /\ history' = Append(history, <<r.ret, r.raised>>)
    /\ op' = name
    /\ UNCHANGED <<self, args>>

ApplyShuffle ==
    /\ op \in {"none", "reseed"}
    /\ args.call = "_apply_shuffle"
    /\ \E r \in {apply_shuffle(self, args.wide_model_out, args.value_cols,
                               args.templates, np_random)} :
            Returned(r, "_apply_shuffle")

\* argsort_random_tiebreak(arr)
Argsort ==
    /\ op \in {"none", "reseed"}
    /\ args.call = "argsort_random_tiebreak(arr)"
    /\ \E r \in {call_argsort_random_tiebreak(1, {},
                    template_column(args.templates, 1), np_random)} :
            Returned(r, "argsort_random_tiebreak")

\* argsort_random_tiebreak(arr, rng)
ArgsortRng ==
    /\ op \in {"none", "reseed"}
    /\ args.call = "argsort_random_tiebreak(arr, rng)"
    /\ \E r \in {call_argsort_random_tiebreak(2, {},
                    template_column(args.templates, 1), np_random)} :
            Returned(r, "argsort_random_tiebreak")

\* TimeDependencePostprocessor(rng = np.random.default_rng(seed)) again
Reseed ==
    /\ Len(history) = 1
    /\ op # "reseed"
    /\ self' = constructed(args.seed)
    /\ op' = "reseed"
    /\ UNCHANGED <<np_random, args, ret, raised, history>>

NextShuffle == ApplyShuffle \/ Argsort \/ ArgsortRng \/ Reseed

SpecShuffle == InitShuffle /\ [][NextShuffle]_vars

-----------------------------------------------------------------------------
(* Specification SpecTransform: one call of transform on a Schaake         *)
(* postprocessor, fitted to observed data or not, with a long input and    *)
(* the defaults of the optional parameters.                                *)

obs_value(location, date) == 10 * date + (IF location = "a" THEN 1 ELSE 2)

obs_row(location, date) ==
    [c \in {"location", "date", "value", "population"} |->
        CASE c = "location" -> location
          [] c = "date" -> date
          [] c = "value" -> obs_value(location, date)
          [] c = "population" -> population(location)]

\* observations of locations a and b on the first n dates
obs_df(n) == [d \in 1 .. n |-> obs_row("a", d)] \o [d \in 1 .. n |-> obs_row("b", d)]

ObsFrames == {obs_df(n) : n \in 0 .. MaxDates}

\* long inputs whose groups have one count at every horizon, but for the
\* first horizon of the first group
TransformShapes ==
    {cnt \in LongShapes :
        \A g \in 1 .. Len(GroupUniverse), h \in HorizonUniverse :
            (g # 1 \/ h # Min(HorizonUniverse)) => cnt[g, h] = cnt[g, Max(HorizonUniverse)]}

InitTransform ==
    /\ \E seed \in RngStates :
        \/ self = Schaake(seed)
        \/ \E df \in ObsFrames :
                self = fit(Schaake(seed), df, <<"location">>, "date", "value",
                           <<"location", "population">>)
    /\ np_random = 0
    /\ op = "none"
    /\ \E cnt \in TransformShapes, m \in IdModes :
            args = [model_out |-> long_model_out(cnt, m[1], m[2]), idx_col |-> m[1],
                    return_long_format |-> TRUE]
    /\ ret = NoValue
    /\ raised = "none"
    /\ history = <<>>

Transform ==
    /\ op = "none"
    /\ \E pivot_order \in group_orders(args.model_out, self) :
        \E p \in {pivot_horizon(self, args.model_out, args.idx_col, pivot_order)} :
         \E group_order \in map_group_orders(self, p) :
          \E r \in {transform(self, args.model_out, args.idx_col, p, group_order,
                              np_random, args.return_long_format)} :
            /\ self' = r.obj
            /\ ret' = r.ret
            /\ raised' = r.raised
            /\ np_random' = r.np_random
            /\ history' = Append(history, <<r.ret, r.raised>>)
    /\ op' = "transform"
    /\ UNCHANGED args

NextTransform == Transform

SpecTransform == InitTransform /\ [][NextTransform]_vars

-----------------------------------------------------------------------------
(* Specification SpecBuild: one call of _build_train_X_Y on a              *)
(* postprocessor set up as test_build_train_X_Y.py sets it up, then a      *)
(* direct call of marginal_pit on the wide query and the observations      *)
(* with their shifted values.                                              *)

\* the (location, date) cells an observed frame may hold, in the two row
\* orders of the model: by location and date, and by descending date with
\* the locations interleaved
obs_cells_sorted ==
    [k \in 1 .. 2 * MaxDates |->
        IF k <= MaxDates THEN <<"a", k>> ELSE <<"b", k - MaxDates>>]

obs_cells_interleaved ==
    [k \in 1 .. 2 * MaxDates |->
        <<IF k % 2 = 1 THEN "b" ELSE "a", MaxDates - ((k - 1) \div 2)>>]

\* observations of location a on the dates of a_dates (gaps allowed) and of
\* location b on its first b_n dates
obs_frame(cells, a_dates, b_n) ==
    LET kept == SelectSeq(cells, LAMBDA c : IF c[1] = "a" THEN c[2] \in a_dates
                                             ELSE c[2] <= b_n)
    IN  [r \in DOMAIN kept |-> obs_row(kept[r][1], kept[r][2])]

BuildFrames ==
    {obs_frame(cells, a_dates, b_n) :
        cells \in {obs_cells_sorted, obs_cells_interleaved},
        a_dates \in SUBSET (1 .. MaxDates),
        b_n \in 0 .. (MaxDates - 1)}

\* obs_mask as the mask test builds it, from the dates of the rows: False on
\* the rows of the dates held out
date_mask(df, held_out) == [r \in DOMAIN df |-> df[r]["date"] \notin held_out]

BuildMasks(df) ==
    {NoValue} \cup {date_mask(df, held_out) : held_out \in SUBSET (1 .. MaxDates)}

\* the wide query: MaxCount samples for every group of GroupUniverse, one
\* column per horizon; around the value observed at the horizon's date, so
\* that the fractions at or below it differ by location and horizon
wide_sample_value(ref, h, p, max_h) == 10 * (ref + h) + p + (IF h = max_h THEN 1 ELSE 0)

wide_query_row(g, p, min_h, max_h) ==
    [c \in {"location", "population", reference_time_col}
            \cup {wide_col_name(h) : h \in min_h .. max_h} |->
        CASE c = "location" -> GroupUniverse[g][1]
          [] c = "population" -> population(GroupUniverse[g][1])
          [] c = reference_time_col -> GroupUniverse[g][2]
          [] OTHER -> wide_sample_value(GroupUniverse[g][2],
                          CHOOSE h \in min_h .. max_h : wide_col_name(h) = c, p, max_h)]

wide_query(min_h, max_h) ==
    [k \in 1 .. (Len(GroupUniverse) * MaxCount) |->
        wide_query_row(((k - 1) \div MaxCount) + 1, ((k - 1) % MaxCount) + 1, min_h, max_h)]

wide_horizon_cols_range(min_h, max_h) ==
    [i \in 1 .. (max_h - min_h + 1) |-> wide_col_name(min_h + i - 1)]

InitBuild ==
    /\ np_random = 0
    /\ op = "none"
    /\ \E df \in BuildFrames, min_h \in HorizonUniverse, max_h \in HorizonUniverse,
          pit_templates \in BOOLEAN :
        /\ min_h <= max_h
        /\ self = SetAttr(fit(constructed(0), df, <<"location">>, "date", "value",
                              <<"location", "population">>),
                          "wide_horizon_cols", wide_horizon_cols_range(min_h, max_h))
        /\ \E obs_mask \in BuildMasks(df) :
            args = [min_horizon |-> min_h, max_horizon |-> max_h, obs_mask |-> obs_mask,
                    wide_model_out |-> wide_query(min_h, max_h),
                    reference_time_col |-> reference_time_col,
                    pit_templates |-> pit_templates]
    /\ ret = NoValue
    /\ raised = "none"
    /\ history = <<>>

\* the orders marginal_pit's group_by may list the units of the call of
\* line 257 in
pit_unit_orders(obj, a) ==
    IF ~ a.pit_templates THEN {<<>>}
    ELSE unit_orders(a.wide_model_out,
            with_reference_time(
                mask_and_dropnull(
                    with_shift_columns(obj.df, obj.key_cols, obj.time_col, obj.obs_col,
                                       a.min_horizon, a.max_horizon), a.obs_mask),
                obj.time_col, a.reference_time_col),
            obj.key_cols \o <<a.reference_time_col>>)

BuildTrainXY ==
    /\ op = "none"
    /\ \E order \in pit_unit_orders(self, args) :
        \E r \in {build_train_X_Y(self, args.min_horizon, args.max_horizon, args.obs_mask,
                                  args.wide_model_out, args.reference_time_col,
                                  args.pit_templates, order)} :
            /\ self' = r.obj
            /\ raised' = r.raised
            /\ history' = Append(history, <<NoValue, r.raised>>)
    /\ ret' = NoValue
    /\ op' = "_build_train_X_Y"
    /\ UNCHANGED <<np_random, args>>

\* the observations a direct call of marginal_pit is given: the rows of the
\* training source with their time as the reference time
pit_obs_data_wide(obj, a) ==
    with_reference_time(mask_and_dropnull(obj.df, a.obs_mask), obj.time_col,
                        a.reference_time_col)

MarginalPit ==
    /\ op = "_build_train_X_Y"
    /\ raised = "none"
    /\ \E order \in unit_orders(args.wide_model_out, pit_obs_data_wide(self, args),
                               self.key_cols \o <<args.reference_time_col>>) :
        \E r \in {call_marginal_pit(marginal_pit_required, args.wide_model_out,
                        pit_obs_data_wide(self, args),
                        self.key_cols \o <<args.reference_time_col>>,
                        self.wide_horizon_cols, self.shift_varnames, order)} :
            /\ ret' = r.ret
            /\ raised' = r.raised
            /\ history' = Append(history, <<r.ret, r.raised>>)
    /\ op' = "marginal_pit"
    /\ UNCHANGED <<self, np_random, args>>

NextBuild == BuildTrainXY \/ MarginalPit

SpecBuild == InitBuild /\ [][NextBuild]_vars

-----------------------------------------------------------------------------
(* Specification SpecTemplates: a Schaake postprocessor set up as          *)
(* test_schaake_build_templates.py sets it up, a call of _build_train_X_Y  *)
(* and a call of _build_templates on the rows of a query.                  *)

\* the first q rows of the wide query, or its last q rows
query_rows(min_h, max_h, q, from_end) ==
    IF from_end
    THEN SubSeq(wide_query(min_h, max_h), Len(wide_query(min_h, max_h)) - q + 1,
                Len(wide_query(min_h, max_h)))
    ELSE SubSeq(wide_query(min_h, max_h), 1, q)

\* the weighters of test_schaake_build_templates.py
Weighters == {"EqualWeighter", "PopSizeWeighter"}

InitTemplates ==
    /\ \E seed \in RngStates, df \in ObsFrames, weighter \in Weighters :
            self = fit(SetAttr(Schaake(seed), "weighter", weighter), df, <<"location">>,
                       "date", "value", <<"location", "population">>)
    /\ np_random = 0
    /\ op = "none"
    /\ \E min_h \in HorizonUniverse, max_h \in HorizonUniverse, q \in 0 .. (MaxRows + 1),
          from_end \in BOOLEAN :
        /\ min_h <= max_h
        /\ args = [min_horizon |-> min_h, max_horizon |-> max_h,
                   wide_model_out |-> query_rows(min_h, max_h, q, from_end)]
    /\ ret = NoValue
    /\ raised = "none"
    /\ history = <<>>

\* ss._build_train_X_Y(min_horizon, max_horizon)
SchaakeBuildTrainXY ==
    /\ op = "none"
    /\ \E r \in {build_train_X_Y(self, args.min_horizon, args.max_horizon, NoValue,
                                  NoValue, NoValue, FALSE, <<>>)} :
            /\ self' = r.obj
            /\ raised' = r.raised
            /\ history' = Append(history, <<NoValue, r.raised>>)
    /\ ret' = NoValue
    /\ op' = "_build_train_X_Y"
    /\ UNCHANGED <<np_random, args>>

\* ss._build_templates(wide_model_out), with or without a training set
BuildTemplates ==
    /\ op \in {"none", "_build_train_X_Y"}
    /\ \E r \in {build_templates(self, args.wide_model_out)} :
            /\ self' = IF r.raised = "AttributeError" THEN self ELSE SetAttr(self, "rng", r.rng)
            /\ ret' = r.ret
            /\ raised' = r.raised
            /\ history' = Append(history, <<r.ret, r.raised>>)
    /\ op' = "_build_templates"
    /\ UNCHANGED <<np_random, args>>

NextTemplates == SchaakeBuildTrainXY \/ BuildTemplates

SpecTemplates == InitTemplates /\ [][NextTemplates]_vars

-----------------------------------------------------------------------------
(* Specification SpecWeights: one call of get_weights of an EqualWeighter  *)
(* or a UnivariateGaussianKernel on arrays of one feature, as              *)
(* test_UnivariateGaussianKernel.py calls it.                              *)

\* arrays of shape (n, 1) with n up to MaxRows
FeatureArrays == UNION {[1 .. n -> FeatureValues] : n \in 0 .. MaxRows}

InitWeights ==
    /\ self \in {[kind |-> "EqualWeighter"]}
                \cup {UnivariateGaussianKernel(half_over_h) : half_over_h \in 1 .. 2}
    /\ np_random = 0
    /\ op = "none"
    /\ \E train_X \in FeatureArrays, test_X \in FeatureArrays :
            args = [train_X |-> train_X, test_X |-> test_X]
    /\ ret = NoValue
    /\ raised = "none"
    /\ history = <<>>

EqualGetWeights ==
    /\ op = "none"
    /\ self.kind = "EqualWeighter"
    /\ \E r \in {get_weights(args.train_X, args.test_X)} :
            /\ ret' = r
            /\ raised' = r.raised
            /\ history' = Append(history, <<r, r.raised>>)
    /\ op' = "get_weights"
    /\ UNCHANGED <<self, np_random, args>>

KernelGetWeights ==
    /\ op = "none"
    /\ self.kind = "UnivariateGaussianKernel"
    /\ \E r \in {UnivariateGaussianKernel_get_weights(self, args.train_X, args.test_X)} :
            /\ ret' = r
            /\ raised' = r.raised
            /\ history' = Append(history, <<r, r.raised>>)
    /\ op' = "get_weights"
    /\ UNCHANGED <<self, np_random, args>>

NextWeights == EqualGetWeights \/ KernelGetWeights

SpecWeights == InitWeights /\ [][NextWeights]_vars

-----------------------------------------------------------------------------
(* Specification SpecHistory: one Schaake postprocessor over its life:     *)
(* calls of fit and of _build_train_X_Y (the step of transform that builds *)
(* the training set, dependence.py:96-97) in any order, with any horizon   *)
(* range, with and without a mask, shift values as templates.              *)

MaxCalls == 3

HistoryFrames ==
    {obs_frame(obs_cells_sorted, a_dates, b_n) :
        a_dates \in SUBSET (1 .. MaxDates), b_n \in 0 .. (MaxDates - 1)}

fit_for_history(obj, df) ==
    fit(obj, df, <<"location">>, "date", "value", <<"location", "population">>)

InitHistory ==
    /\ np_random = 0
    /\ op = "fit"
    /\ \E df \in HistoryFrames :
        /\ self = fit_for_history(constructed(0), df)
        /\ args = [df |-> df, min_horizon |-> 0, max_horizon |-> 0, obs_mask |-> NoValue]
    /\ ret = NoValue
    /\ raised = "none"
    /\ history = <<>>

\* fit(df, key_cols, time_col, obs_col, feat_cols) on the same object
FitAgain ==
    /\ Len(history) < MaxCalls
    /\ \E df \in HistoryFrames :
        /\ self' = fit_for_history(self, df)
        /\ args' = [args EXCEPT !.df = df]
    /\ op' = "fit"
    /\ raised' = "none"
    /\ history' = Append(history, <<"fit", "none">>)
    /\ UNCHANGED <<np_random, ret>>

\* _build_train_X_Y(min_horizon, max_horizon, obs_mask, ...) on the object
\* as the calls before left it
BuildTrainXYAgain ==
    /\ Len(history) < MaxCalls
    /\ \E min_h \in HorizonUniverse, max_h \in HorizonUniverse,
          obs_mask \in {NoValue, date_mask(self.df, {1})} :
        /\ min_h <= max_h
        /\ \E r \in {build_train_X_Y(self, min_h, max_h, obs_mask, NoValue,
                                     reference_time_col, FALSE, <<>>)} :
            /\ self' = r.obj
            /\ raised' = r.raised
            /\ history' = Append(history, <<"_build_train_X_Y", r.raised>>)
        /\ args' = [args EXCEPT !.min_horizon = min_h, !.max_horizon = max_h,
                                !.obs_mask = obs_mask]
    /\ op' = "_build_train_X_Y"
    /\ UNCHANGED <<np_random, ret>>

NextHistory == FitAgain \/ BuildTrainXYAgain

SpecHistory == InitHistory /\ [][NextHistory]_vars

-----------------------------------------------------------------------------
(* Specification SpecShared: two Schaake instances, each constructed with  *)
(* a generator of its caller or with no argument, fit and given a training *)
(* set; then calls of _build_templates through either instance.  An        *)
(* instance holds references: self.generators maps a generator object to   *)
(* its state and self.weighters a weighter object to its kind.             *)

\* the objects the defaults of Schaake.__init__ (dependence.py:366-367) are
\* evaluated to, once, when the def statement runs
default_weighter == "weighters.EqualWeighter()"

default_rng == "np.random.default_rng()"

\* the generator object the caller of the i-th constructor made
own_rng(i) == "rng" \o ToString(i)

\* a variant of Schaake_init in which an instance constructed without rng
\* gets a generator of its own
Schaake_init_own_default(i, explicit) == [weighter |-> default_weighter, rng |-> own_rng(i)]

\* the i-th constructor call, Schaake(rng = rng_i) or Schaake(): the
\* instance holds the objects passed, or the default objects
Schaake_init(i, explicit) ==
    [weighter |-> default_weighter, rng |-> IF explicit THEN own_rng(i) ELSE default_rng]

\* instance i with the state of its generator and the kind of its weighter
\* in the place of the references
instance_view(heap, i) ==
    [a \in DOMAIN heap.instances[i] |->
        CASE a = "rng" -> heap.generators[heap.instances[i].rng]
          [] a = "weighter" -> heap.weighters[heap.instances[i].weighter]
          [] OTHER -> heap.instances[i][a]]

\* the instance after fit(df) and _build_train_X_Y(0, 0)
with_training_set(obj) ==
    build_train_X_Y(fit(obj, obs_df(MaxDates), <<"location">>, "date", "value",
                        <<"location", "population">>),
                    0, 0, NoValue, NoValue, NoValue, FALSE, <<>>).obj

InitShared ==
    /\ np_random = 0
    /\ op = "none"
    /\ \E explicit \in [1 .. 2 -> BOOLEAN], default_state \in RngStates,
          seeds \in [1 .. 2 -> RngStates] :
        /\ \A i \in 1 .. 2 : ~ explicit[i] => seeds[i] = 0
        /\ (\A i \in 1 .. 2 : explicit[i]) => default_state = 0
        /\ self = [instances |-> [i \in 1 .. 2 |->
                                    with_training_set(Schaake_init(i, explicit[i]))],
                   generators |-> [g \in {default_rng, own_rng(1), own_rng(2)} |->
                                    IF g = default_rng THEN default_state
                                    ELSE IF g = own_rng(1) THEN seeds[1] ELSE seeds[2]],
                   weighters |-> [w \in {default_weighter} |-> "EqualWeighter"]]
        /\ args = [explicit |-> explicit, default_state |-> default_state, seeds |-> seeds]
    /\ ret = NoValue
    /\ raised = "none"
    /\ history = <<>>

\* instance._build_templates(wide_model_out) on a query of q rows, through
\* either instance
InstanceTemplates ==
    /\ Len(history) < MaxCalls
    /\ \E i \in 1 .. 2, q \in 1 .. MaxRows :
        \E r \in {build_templates(instance_view(self, i), query_rows(0, 0, q, FALSE))} :
            /\ self' = [self EXCEPT !.generators[self.instances[i].rng] = r.rng]
            /\ ret' = r.ret
            /\ raised' = r.raised
            /\ history' = Append(history, <<r.ret, r.raised, i, q>>)
    /\ op' = "_build_templates"
    /\ UNCHANGED <<np_random, args>>

NextShared == InstanceTemplates

SpecShared == InitShared /\ [][NextShared]_vars

-----------------------------------------------------------------------------
(* Specification SpecEnergy: one call of energy_score on a wide frame of   *)
(* samples and a wide frame of observations with the columns of            *)
(* test_energy_score.py, both with null cells and with units the other     *)
(* frame does not have; the frames share a unit at least.                  *)

ScoreValues == {Null, 1, 3}

ObservedValues == {Null, 2}

SampleFrames ==
    UNION {[1 .. n -> [location : {"a", "b"}, horizon1 : ScoreValues, horizon2 : ScoreValues]] :
                n \in 1 .. MaxRows}

\* one row per observed unit
ObservationFrames ==
    UNION {{[i \in DOMAIN units |->
                [location |-> units[i], value_lead1 |-> v[i][1], value_lead2 |-> v[i][2]]] :
                v \in [DOMAIN units -> ObservedValues \X ObservedValues]} :
            units \in {<<>>, <<"a">>, <<"b">>, <<"a", "b">>}}

\* the keywords of the calls of test_energy_score.py, lines 68-73 and 78-83
test_call_keywords ==
    {"model_out_wide", "obs_data_wide", "index_cols", "pred_cols", "obs_cols", "reduce_mean"}

InitEnergy ==
    /\ self = NoValue
    /\ np_random = 0
    /\ op = "none"
    /\ \E model_out_wide \in SampleFrames, obs_data_wide \in ObservationFrames,
          reduce_mean \in BOOLEAN, keywords \in {energy_score_params, test_call_keywords} :
            /\ joined_pairs(model_out_wide, obs_data_wide, <<"location">>) # {}
            /\ args = [model_out_wide |-> model_out_wide, obs_data_wide |-> obs_data_wide,
                       key_cols |-> <<"location">>,
                       pred_cols |-> <<"horizon1", "horizon2">>,
                       obs_cols |-> <<"value_lead1", "value_lead2">>,
                       reduce_mean |-> reduce_mean, keywords |-> keywords]
    /\ ret = NoValue
    /\ raised = "none"
    /\ history = <<>>

EnergyScore ==
    /\ op = "none"
    /\ \E order \in unit_orders(args.model_out_wide, args.obs_data_wide, args.key_cols) :
        \E r \in {call_energy_score(args.keywords, args, order)} :
            /\ ret' = r.ret
            /\ raised' = r.raised
            /\ history' = Append(history, <<r.ret, r.raised>>)
    /\ op' = "energy_score"
    /\ UNCHANGED <<self, np_random, args>>

NextEnergy == EnergyScore

SpecEnergy == InitEnergy /\ [][NextEnergy]_vars

-----------------------------------------------------------------------------
(* Specification SpecGroups: the templates of the groups of one wide       *)
(* query, drawn group after group by _build_templates in any order, as     *)
(* the map_groups of transform hands the groups over (dependence.py:99-104 *)
(* and 131-138).                                                           *)

InitGroups ==
    /\ np_random = 0
    /\ op = "none"
    /\ \E seed \in RngStates, df \in ObsFrames, min_h \in HorizonUniverse,
          max_h \in HorizonUniverse :
        /\ min_h <= max_h
        /\ self = fit(Schaake(seed), df, <<"location">>, "date", "value",
                      <<"location", "population">>)
        /\ args = [rng |-> seed, min_horizon |-> min_h, max_horizon |-> max_h,
                   wide_model_out |-> wide_query(min_h, max_h)]
    /\ ret = NoValue
    /\ raised = "none"
    /\ history = <<>>

\* the groups of the wide query that have their templates already
groups_done == {history[k][3] : k \in {k \in DOMAIN history : Len(history[k]) = 3}}

\* the templates of one more group, whichever polars hands over next
GroupTemplates ==
    /\ op \in {"_build_train_X_Y", "_build_templates"}
    /\ raised = "none"
    /\ \E g \in {Project(args.wide_model_out[r], group_cols(self.key_cols)) :
                    r \in DOMAIN args.wide_model_out} \ groups_done :
        \E r \in {build_templates(self, group_rows(args.wide_model_out,
                                                   group_cols(self.key_cols), g))} :
            /\ self' = SetAttr(self, "rng", r.rng)
            /\ ret' = r.ret
            /\ raised' = r.raised
            /\ history' = Append(history, <<r.ret, r.raised, g>>)
    /\ op' = "_build_templates"
    /\ UNCHANGED <<np_random, args>>

NextGroups == SchaakeBuildTrainXY \/ GroupTemplates

SpecGroups == InitGroups /\ [][NextGroups]_vars

-----------------------------------------------------------------------------
(* Claims about _apply_shuffle and argsort_random_tiebreak, read off the   *)
(* arguments and the outcome of the call.                                  *)

Shuffled == op = "_apply_shuffle"

\* the number of rows of df whose column c holds v
count_in(df, c, v) == Cardinality({r \in DOMAIN df : df[r][c] = v})

\* C1: _apply_shuffle returns a group in which every value column holds the
\* same multiset of values as the input column: values are only relocated
\* between rows.
C1_MultisetPreserved ==
    Shuffled =>
        /\ raised = "none"
        /\ Len(ret) = Len(args.wide_model_out)
        /\ \A i \in DOMAIN args.value_cols : \A v \in SampleValues :
                count_in(ret, args.value_cols[i], v)
                    = count_in(args.wide_model_out, args.value_cols[i], v)

\* C2: _apply_shuffle returns a group in which, for every value column and
\* every pair of rows, the row with the smaller template value does not
\* hold the larger output value.
C2_RankOrderFollowsTemplates ==
    Shuffled =>
        /\ raised = "none"
        /\ \A i \in DOMAIN args.value_cols : \A A, B \in DOMAIN ret :
                args.templates[A][i] < args.templates[B][i]
                    => ret[A][args.value_cols[i]] <= ret[B][args.value_cols[i]]

\* C3: two runs of one operation on the same inputs, the second with a
\* postprocessor constructed anew from the same seed, have the same outcome.
C3_Reproducible ==
    Len(history) = 2 => history[1] = history[2]

\* C4: _apply_shuffle returns a group with the rows of the input in their
\* order, in which every column that is not a value column holds in every
\* row the value the input holds.
C4_OtherColumnsUntouched ==
    Shuffled =>
        /\ raised = "none"
        /\ Len(ret) = Len(args.wide_model_out)
        /\ \A r \in DOMAIN ret :
                /\ DOMAIN ret[r] = DOMAIN args.wide_model_out[r]
                /\ \A c \in DOMAIN ret[r] \ Range(args.value_cols) :
                        ret[r][c] = args.wide_model_out[r][c]

-----------------------------------------------------------------------------
(* Claims about _pivot_horizon, read off the input and the output of the   *)
(* call.                                                                   *)

Pivoted == op = "_pivot_horizon"

InputRows == DOMAIN args.model_out

InputGroups == {Project(args.model_out[i], {"location", reference_time_col}) : i \in InputRows}

InputHorizons == {args.model_out[i][horizon_col] : i \in InputRows}

FullRange == IF InputRows = {} THEN {} ELSE Min(InputHorizons) .. Max(InputHorizons)

\* the input rows of group g at horizon h
CellRows(g, h) ==
    {i \in InputRows : /\ Project(args.model_out[i], {"location", reference_time_col}) = g
                       /\ args.model_out[i][horizon_col] = h}

GroupHorizons(g) == {h \in InputHorizons : CellRows(g, h) # {}}

HorizonsComplete == \A g \in InputGroups : GroupHorizons(g) = FullRange

CountsEqualWithinGroups ==
    \A g \in InputGroups : \A h1, h2 \in GroupHorizons(g) :
        Cardinality(CellRows(g, h1)) = Cardinality(CellRows(g, h2))

\* the rows of the wide output that belong to group g
WideRows(g) == {i \in DOMAIN ret : Project(ret[i], {"location", reference_time_col}) = g}

\* C6: _pivot_horizon raises the horizons error exactly when some
\* (key_cols, reference_time) group's set of horizons differs from the
\* integer range [min_horizon, max_horizon] of the whole input, whether the
\* missing horizon is interior or at a boundary.
C6_HorizonCheck ==
    Pivoted => ((raised = HorizonsError) <=> ~ HorizonsComplete)

\* a call that raised on an input where one group lacks an interior horizon
\* and another group lacks a boundary horizon
C6_Witness ==
    /\ Pivoted
    /\ raised = HorizonsError
    /\ \E g \in InputGroups : \E h \in FullRange :
            /\ h \notin GroupHorizons(g)
            /\ Min(FullRange) < h /\ h < Max(FullRange)
    /\ \E g \in InputGroups :
            /\ GroupHorizons(g) = Min(GroupHorizons(g)) .. Max(GroupHorizons(g))
            /\ GroupHorizons(g) # FullRange

\* C7: _pivot_horizon raises a ValueError whenever two horizons of one
\* (key_cols, reference_time) group have different numbers of rows.
C7_CountCheck ==
    (Pivoted /\ ~ CountsEqualWithinGroups) => raised \in {HorizonsError, CountsError}

\* a call that raised the counts error: every group has every horizon, and
\* one group has two horizons with different numbers of rows
C7_Witness ==
    /\ Pivoted
    /\ HorizonsComplete
    /\ ~ CountsEqualWithinGroups
    /\ raised = CountsError

\* C8: _pivot_horizon accepts every input in which each group has the
\* complete horizon range and the same number of rows at every horizon,
\* also when that number differs between groups, two reference times of one
\* key included.
C8_AcceptsValid ==
    (Pivoted /\ InputRows # {} /\ HorizonsComplete /\ CountsEqualWithinGroups)
        => raised = "none"

\* C9: after _pivot_horizon of a valid input no two rows of the wide table
\* have the same sample id, and each group has as many wide rows as it has
\* samples per horizon.
C9_UniqueSampleIds ==
    (Pivoted /\ raised = "none") =>
        /\ \A i, j \in DOMAIN ret : i # j => ret[i][args.idx_col] # ret[j][args.idx_col]
        /\ \A g \in InputGroups :
                Cardinality(WideRows(g)) = Cardinality(CellRows(g, Min(FullRange)))

\* C10: after _pivot_horizon of a valid input, the wide column of horizon h
\* holds, within each group's rows, exactly the values the long input holds
\* for that group at h; the wide table has the column
\* postpredict_<horizon_col><h> for every h of the range and keeps every
\* input column other than the horizon and value columns.
C10_PivotValues ==
    (Pivoted /\ raised = "none") =>
        /\ \A i \in DOMAIN ret :
                /\ (DOMAIN args.model_out[1]) \ {horizon_col, pred_col} \subseteq DOMAIN ret[i]
                /\ \A h \in FullRange : ("postpredict_horizon" \o ToString(h)) \in DOMAIN ret[i]
        /\ \A g \in InputGroups : \A h \in FullRange :
                {ret[i]["postpredict_horizon" \o ToString(h)] : i \in WideRows(g)}
                    = {args.model_out[i][pred_col] : i \in CellRows(g, h)}

-----------------------------------------------------------------------------
(* Claims about transform.                                                 *)

\* the rows of a long frame that belong to group g at horizon h
LongCellRows(df, g, h) ==
    {i \in DOMAIN df : /\ Project(df[i], {"location", reference_time_col}) = g
                       /\ df[i][horizon_col] = h}

\* a transform call on a valid long input by a postprocessor whose training
\* set has a row to draw templates from
TransformedValid ==
    /\ op = "transform"
    /\ InputRows # {}
    /\ HorizonsComplete
    /\ CountsEqualWithinGroups
    /\ "train_X" \in DOMAIN self
    /\ Len(self.train_X) > 0

\* C5: transform of a valid long input returns a long table with the
\* columns and the number of rows of the input, in which every group holds
\* at every horizon the multiset of values the input holds there.
C5_TransformPreservesValues ==
    TransformedValid =>
        /\ raised = "none"
        /\ Len(ret) = Len(args.model_out)
        /\ \A r \in DOMAIN ret : DOMAIN ret[r] = DOMAIN args.model_out[1]
        /\ \A g \in InputGroups : \A h \in FullRange :
                /\ {ret[i][pred_col] : i \in LongCellRows(ret, g, h)}
                        = {args.model_out[i][pred_col] : i \in CellRows(g, h)}
                /\ Cardinality(LongCellRows(ret, g, h)) = Cardinality(CellRows(g, h))

-----------------------------------------------------------------------------
(* Claims about the round trip of pivot and unpivot.                       *)

Unpivoted == op = "unpivot"

\* the rows of the unpivoted table that hold a value
ValuedRows == {i \in DOMAIN ret : ret[i][pred_col] # Null}

-----------------------------------------------------------------------------
(* Claims about the order of fit and transform, and about what a transform *)
(* call leaves behind.                                                     *)

Transformed == op = "transform"

FitAttributes == {"df", "key_cols", "time_col", "obs_col", "feat_cols"}

\* C12: transform on a postprocessor on which fit was never called raises
\* (an AttributeError for the missing attribute, or a TypeError on an empty
\* input) and returns no table; a transform that returns a table was called
\* on an object that holds every attribute fit sets.
C12_TransformNeedsFit ==
    Transformed =>
        /\ ("df" \notin DOMAIN self) =>
                (raised \in {"AttributeError", "TypeError"} /\ ret = NoValue)
        /\ (raised = "none") => (FitAttributes \subseteq DOMAIN self)

\* a transform of a non-empty, complete input by a postprocessor that was
\* never fitted
C12_Witness ==
    /\ Transformed
    /\ FitAttributes \cap DOMAIN self = {}
    /\ InputRows # {}
    /\ HorizonsComplete
    /\ CountsEqualWithinGroups
    /\ raised = "AttributeError"

\* C13: a transform call that raises one of the two validation errors of
\* _pivot_horizon returns no table and leaves the postprocessor as it was:
\* the observations, train_X, train_Y and wide_horizon_cols are untouched.
C13_FailedValidationLeavesNoTrace ==
    [][(op' = "transform" /\ raised' \in {HorizonsError, CountsError})
            => (self' = self /\ ret' = NoValue)]_vars

\* a transform by a fitted postprocessor that raised the counts error on an
\* input with unequal counts within a group, and holds no training set
C13_Witness ==
    /\ Transformed
    /\ raised = CountsError
    /\ ~ CountsEqualWithinGroups
    /\ "df" \in DOMAIN self
    /\ Len(self.df) > 0
    /\ {"train_X", "train_Y", "wide_horizon_cols"} \cap DOMAIN self = {}

ShiftColumns == {shift_varname("value", h) : h \in FullRange}

-----------------------------------------------------------------------------
(* Claims about _build_train_X_Y and marginal_pit, read off the arguments  *)
(* of the call, the observations and the training set of the object.       *)

Built == op = "_build_train_X_Y"

Horizons == args.min_horizon .. args.max_horizon

\* the rows of the observations of the key group of row r
KeyGroup(r) == {j \in DOMAIN self.df : self.df[j]["location"] = self.df[r]["location"]}

\* the place of row r in its key group when the group is ordered by time
Step(r) == Cardinality({j \in KeyGroup(r) : self.df[j]["date"] <= self.df[r]["date"]})

\* the rows of the key group of r that lie h steps after r
RowsAtStep(r, h) == {j \in KeyGroup(r) : Step(j) = Step(r) + h}

\* the rows of the key group of r observed at the time of r plus h
RowsAtTime(r, h) == {j \in KeyGroup(r) : self.df[j]["date"] = self.df[r]["date"] + h}

\* the rows of obs that satisfy keep, in the order of the observations
RECURSIVE Kept(_, _)
Kept(keep, k) ==
    IF k = 0 THEN <<>>
    ELSE Kept(keep, k - 1) \o (IF k \in keep THEN <<k>> ELSE <<>>)

SpanOfHorizons == Max({args.max_horizon, 0}) - Min({args.min_horizon, 0})

\* train_X and train_Y hold, row by row, the features of the rows of rows
\* and for each horizon the observed value of the row that target names
TrainingSetIs(rows, target(_, _)) ==
    /\ Len(self.train_X) = Len(rows)
    /\ Len(self.train_Y) = Len(rows)
    /\ \A i \in DOMAIN rows :
        /\ self.train_X[i] = Project(self.df[rows[i]], Range(self.feat_cols))
        /\ DOMAIN self.train_Y[i] = {shift_varname("value", h) : h \in Horizons}
        /\ \A h \in Horizons :
                \E j \in target(rows[i], h) :
                    self.train_Y[i][shift_varname("value", h)] = self.df[j]["value"]

\* C15 as stated: without mask and PIT mode, the target for h of the row at
\* time t is the observation of its key group at time t + h, the rows kept
\* are those whose targets all exist, a key group of n observations yields
\* n - (max(max_horizon, 0) - min(min_horizon, 0)) rows, and train_X and
\* train_Y are aligned row by row.
C15_TargetsAtTimePlusH ==
    (Built /\ ~ args.pit_templates /\ args.obs_mask = NoValue) =>
        /\ raised = "none"
        /\ TrainingSetIs(Kept({r \in DOMAIN self.df : \A h \in Horizons : RowsAtTime(r, h) # {}},
                              Len(self.df)), RowsAtTime)
        /\ \A r \in DOMAIN self.df :
                Cardinality({i \in DOMAIN self.train_X :
                                self.train_X[i]["location"] = self.df[r]["location"]})
                    = Cardinality(KeyGroup(r)) - SpanOfHorizons

\* C15 as amended: without mask and PIT mode, the target for h of a row is
\* the observation of its key group h steps after it in the group's time
\* order (the observation at time t + h when the times of the group are
\* consecutive), never a value of another key group; the rows kept are
\* those whose targets all exist, so a key group of n observations yields
\* max(0, n - (max(max_horizon, 0) - min(min_horizon, 0))) rows; train_X and
\* train_Y have the same number of rows and row i of both is the same kept
\* observation.
C15_TargetsBySteps ==
    (Built /\ ~ args.pit_templates /\ args.obs_mask = NoValue) =>
        /\ raised = "none"
        /\ TrainingSetIs(Kept({r \in DOMAIN self.df : \A h \in Horizons : RowsAtStep(r, h) # {}},
                              Len(self.df)), RowsAtStep)
        /\ \A r \in DOMAIN self.df :
                Cardinality({i \in DOMAIN self.train_X :
                                self.train_X[i]["location"] = self.df[r]["location"]})
                    = Max({0, Cardinality(KeyGroup(r)) - SpanOfHorizons})

\* a call without mask and PIT mode for a negative and a positive horizon on
\* observations of two key groups whose rows are interleaved and listed
\* against time, one of them with a gap in its dates and a row to keep
C15_Witness ==
    /\ Built
    /\ ~ args.pit_templates
    /\ args.obs_mask = NoValue
    /\ args.min_horizon < 0
    /\ args.max_horizon > 0
    /\ Len(self.train_Y) = 1
    /\ \E r \in DOMAIN self.df : Cardinality(KeyGroup(r)) = 2
    /\ \E r \in DOMAIN self.df :
            /\ Cardinality(KeyGroup(r)) = 3
            /\ \E j \in KeyGroup(r) : j < r /\ self.df[j]["date"] > self.df[r]["date"]
            /\ \E j \in DOMAIN self.df : j < r /\ j + 1 \notin KeyGroup(j)

\* C16: with a mask, a masked-out observation row contributes nothing to the
\* training set: it is no training row and none of the target values of a
\* training row is its value (every observation of the model has a value of
\* its own, so a value names its row).
C16_MaskedRowsContributeNothing ==
    (Built /\ ~ args.pit_templates /\ args.obs_mask # NoValue) =>
        /\ raised = "none"
        /\ \A r \in DOMAIN self.df :
            ~ args.obs_mask[r] =>
                \A i \in DOMAIN self.train_Y : \A c \in DOMAIN self.train_Y[i] :
                    self.train_Y[i][c] # self.df[r]["value"]

UnitCols == Range(self.key_cols) \cup {args.reference_time_col}

\* the observations with their shifted values that pass the mask, under
\* their time as reference time
PitObservations ==
    {WithColumn(row, args.reference_time_col, row["date"]) :
        row \in {self.df[r] : r \in {r \in DOMAIN self.df :
                    /\ args.obs_mask = NoValue \/ args.obs_mask[r]
                    /\ \A h \in Horizons : self.df[r][shift_varname("value", h)] # Null}}}

SamplesOf(unit) ==
    {m \in DOMAIN args.wide_model_out : Project(args.wide_model_out[m], UnitCols) = unit}

\* the units present in both the wide model output and the observations
PitUnits ==
    {unit \in {Project(args.wide_model_out[m], UnitCols) : m \in DOMAIN args.wide_model_out} :
        \E o \in PitObservations : Project(o, UnitCols) = unit}

\* the fraction of the samples of the unit at or below its observed value
\* for the k-th horizon, as <<numerator, denominator>>
PitOf(unit, k) ==
    LET o == CHOOSE o \in PitObservations : Project(o, UnitCols) = unit
    IN  <<Cardinality({m \in SamplesOf(unit) :
                args.wide_model_out[m][self.wide_horizon_cols[k]]
                    <= o[self.shift_varnames[k]]}),
          Cardinality(SamplesOf(unit))>>

\* the rows of frame are one per unit of PitUnits and hold its fractions
HoldsPitValues(frame) ==
    /\ Len(frame) = Cardinality(PitUnits)
    /\ \A unit \in PitUnits :
        \E r \in DOMAIN frame :
            \A k \in DOMAIN self.wide_horizon_cols :
                LET pit == frame[r][pit_col_name(self.wide_horizon_cols[k])]
                IN  /\ pit = PitOf(unit, k)
                    /\ 0 <= pit[1]
                    /\ pit[1] <= pit[2]
                    /\ pit[2] > 0

MarginalPitCalled == op = "marginal_pit"

\* the part of C18 about marginal_pit itself: one row per unit present in
\* both frames, and pit_<pred_col> is the fraction of the unit's sample
\* rows whose predicted value is <= the unit's observed value, in [0, 1]
MarginalPitFractions ==
    MarginalPitCalled =>
        /\ raised = "none"
        /\ HoldsPitValues(ret)
        /\ \A unit \in PitUnits :
                Cardinality({r \in DOMAIN ret : Project(ret[r], UnitCols) = unit}) = 1

\* C18: marginal_pit returns exactly one row per unit present in both
\* frames, whose column pit_<pred_col> is the fraction of the unit's sample
\* rows at or below the unit's observed value, in [0, 1]; and the call of
\* marginal_pit made by PIT-mode training-set construction yields these
\* values as targets.
C18_PitFractionsAsTargets ==
    /\ MarginalPitFractions
    /\ (Built /\ args.pit_templates) =>
            /\ raised = "none"
            /\ HoldsPitValues(self.train_Y)

\* C19: in PIT mode the training set has exactly one row per (key_cols,
\* reference_time) group of the wide query whose reference time is the time
\* of an observation row of the same key that passes the mask and has every
\* shifted value; target j of the row is the fraction of the group's
\* samples at horizon j that are <= the matched shifted observation, and
\* train_X holds the group's feature values; the other groups of the query
\* are left out without an error.
C19_PitTrainingSet ==
    (Built /\ args.pit_templates) =>
        /\ raised = "none"
        /\ Len(self.train_X) = Cardinality(PitUnits)
        /\ Len(self.train_Y) = Cardinality(PitUnits)
        /\ \A unit \in PitUnits :
            \E i \in DOMAIN self.train_Y :
                /\ \A m \in SamplesOf(unit) :
                        self.train_X[i] = Project(args.wide_model_out[m], Range(self.feat_cols))
                /\ \A k \in DOMAIN self.wide_horizon_cols :
                        self.train_Y[i][pit_col_name(self.wide_horizon_cols[k])] = PitOf(unit, k)

\* the weight the weighter of the object gives training row j for query row
\* i, before the division by the sum of the row
WeightOf(i, j) ==
    IF self.weighter = "EqualWeighter" THEN 1
    ELSE IF args.wide_model_out[i]["location"] = self.train_X[j]["location"]
         THEN self.train_X[j]["population"]
         ELSE 0

WeightBelow(i, j) == SumSeq([k \in 1 .. (j - 1) |-> WeightOf(i, k)])

TotalWeight(i) == WeightBelow(i, Len(self.train_X) + 1)

\* the weights of every query row are a distribution over the training rows
WeightsAreDistributions ==
    /\ {"train_X", "train_Y"} \subseteq DOMAIN self
    /\ Len(self.train_Y) >= 1
    /\ \A i \in DOMAIN args.wide_model_out : TotalWeight(i) > 0

\* the draw of generator state s for query row i falls in the share of
\* [0, 1) that weight row i gives training row j
InShare(s, i, j) ==
    LET draw == rng_advance(s, i)
    IN  /\ WeightBelow(i, j) * Cardinality(RngStates) <= draw * TotalWeight(i)
        /\ draw * TotalWeight(i) < WeightBelow(i, j + 1) * Cardinality(RngStates)

DrawnFor(i, j) == InShare(self.rng, i, j)

\* C20: for a query group of q rows and a training set of n >= 1 rows,
\* _build_templates returns exactly q rows with one column per horizon in
\* the temporal order of the horizons, and row i is a copy of the train_Y
\* row whose index the i-th draw of the generator selected for query row i
\* from weight row i.
C20_TemplatesAreDrawnTrainingRows ==
    [][(op' = "_build_templates" /\ WeightsAreDistributions) =>
            /\ raised' = "none"
            /\ Len(ret') = Len(args.wide_model_out)
            /\ \A i \in DOMAIN ret' :
                /\ Len(ret'[i]) = Cardinality(Horizons)
                /\ \E j \in DOMAIN self.train_Y :
                    /\ DrawnFor(i, j)
                    /\ \A k \in DOMAIN ret'[i] :
                            ret'[i][k]
                                = self.train_Y[j][shift_varname("value", args.min_horizon + k - 1)]]_vars

\* templates for three query rows from a training set of two rows with a
\* negative, the zero and a positive horizon: one training row serves two
\* query rows, the other the third
C20_Witness ==
    /\ op = "_build_templates"
    /\ raised = "none"
    /\ Len(self.train_Y) = 2
    /\ Len(ret) = 3
    /\ Len(ret[1]) = 3
    /\ ret[1] = ret[2]
    /\ ret[3] # ret[1]
    /\ \E i \in DOMAIN ret : \A k \in DOMAIN ret[i] :
            ret[i][k] = self.train_Y[2][shift_varname("value", args.min_horizon + k - 1)]

Templated == op = "_build_templates"

\* training row j as a template: its targets in the order of the horizons
TemplateRow(j) ==
    [k \in 1 .. Cardinality(Horizons) |->
        self.train_Y[j][shift_varname("value", args.min_horizon + k - 1)]]

\* C21: _build_templates never gives query row i a training row whose
\* weight for query row i is 0, and every training row with positive weight
\* for query row i is the template of query row i for some state of the
\* generator (every observation of the model has a value of its own, so a
\* template names its training row).
C21_ZeroWeightNeverPositiveWeightPossible ==
    /\ (Templated /\ raised = "none") =>
            \A i \in DOMAIN ret, j \in DOMAIN self.train_Y :
                WeightOf(i, j) = 0 => ret[i] # TemplateRow(j)
    /\ (Built /\ WeightsAreDistributions) =>
            \A i \in DOMAIN args.wide_model_out, j \in DOMAIN self.train_Y :
                WeightOf(i, j) > 0 =>
                    \E s \in RngStates :
                        build_templates(SetAttr(self, "rng", s), args.wide_model_out).ret[i]
                            = TemplateRow(j)

\* templates drawn with the weighter of the unequal-weights test for two
\* query rows, from a training set that has rows of weight 0 and several
\* rows of positive weight for them, the first training row among those of
\* weight 0
C21_Witness ==
    /\ Templated
    /\ raised = "none"
    /\ self.weighter = "PopSizeWeighter"
    /\ Len(ret) >= 2
    /\ WeightOf(1, 1) = 0
    /\ Cardinality({j \in DOMAIN self.train_Y : WeightOf(1, j) > 0}) >= 2
    /\ ret[1] # ret[2]

-----------------------------------------------------------------------------
(* Claims about the weighters, read off the arguments and the result of a  *)
(* call of get_weights.                                                    *)

Weighed == op = "get_weights"

\* row i of the weights sums to 1 and has no negative entry
RowIsDistribution(row) ==
    /\ row.den > 0
    /\ SumSeq(row.num) = row.den
    /\ \A j \in DOMAIN row.num : row.num[j] >= 0

\* C22: for a training set of n_train >= 1 rows and any query set,
\* get_weights of EqualWeighter and of UnivariateGaussianKernel returns a
\* matrix of shape (n_query, n_train) without negative entries whose every
\* row sums to 1; every entry of EqualWeighter is 1 / n_train, and the
\* entries of a row of UnivariateGaussianKernel are in the proportions of
\* exp(-0.5 / h * (query_i - train_j)^2) (entries that underflowed aside).
C22_RowsSumToOne ==
    (Weighed /\ Len(args.train_X) >= 1) =>
        /\ raised = "none"
        /\ ret.shape = <<Len(args.test_X), Len(args.train_X)>>
        /\ DOMAIN ret.rows = DOMAIN args.test_X
        /\ \A i \in DOMAIN ret.rows :
            /\ DOMAIN ret.rows[i].num = DOMAIN args.train_X
            /\ RowIsDistribution(ret.rows[i])
            /\ self.kind = "EqualWeighter" =>
                    \A j \in DOMAIN args.train_X :
                        ret.rows[i].num[j] * Len(args.train_X) = ret.rows[i].den
            /\ self.kind = "UnivariateGaussianKernel" =>
                    \A j, k \in DOMAIN args.train_X :
                        LET dj == args.test_X[i] - args.train_X[j]
                            dk == args.test_X[i] - args.train_X[k]
                        IN  (ret.rows[i].num[j] > 0 /\ ret.rows[i].num[k] > 0) =>
                                ret.rows[i].num[j] * pow2(self.half_over_h * dj * dj)
                                    = ret.rows[i].num[k] * pow2(self.half_over_h * dk * dk)

\* C23: with an empty training set, get_weights of EqualWeighter and of
\* UnivariateGaussianKernel raises an error and returns no weights, and
\* _build_templates (of a Schaake with its EqualWeighter) raises an error
\* and returns no templates.
C23_EmptyTrainingSetFailsFast ==
    /\ (Weighed /\ Len(args.train_X) = 0) => (raised # "none" /\ ret.rows = NoValue)
    /\ (Templated /\ "train_X" \in DOMAIN self /\ self.weighter = "EqualWeighter"
            /\ Len(self.train_X) = 0) =>
            (raised # "none" /\ ret = NoValue)

-----------------------------------------------------------------------------
(* Claims about the order the groups of a query are processed in.          *)

\* C24: with the generator seeded identically and identical inputs, the
\* template draws of a group do not depend on which groups were processed
\* before it: every group gets the templates it gets when it is the first
\* group processed.
C24_GroupDrawsOrderIndependent ==
    \A k \in DOMAIN history :
        (Len(history[k]) = 3 /\ history[k][2] = "none") =>
            history[k][1]
                = build_templates(SetAttr(self, "rng", args.rng),
                        group_rows(args.wide_model_out, group_cols(self.key_cols),
                                   history[k][3])).ret

-----------------------------------------------------------------------------
(* Claims about the sample ids _pivot_horizon assigns.                     *)

\* the number of samples of group g: its rows at the first horizon
SamplesIn(g) == Cardinality(CellRows(g, Min(FullRange)))

TotalSamples == Cardinality({i \in InputRows : args.model_out[i][horizon_col] = Min(FullRange)})

\* the sample ids the wide rows of group g hold in column c
IdsOf(g, c) == {ret[i][c] : i \in WideRows(g)}

\* C25: whatever name is passed as the sample-id column, _pivot_horizon
\* writes the reassigned sample ids (0 .. N - 1 for N samples) to the
\* column of that name, and the output has the columns of the input (the
\* horizon and value columns replaced by one column per horizon) and no
\* other column.
C25_IdsInTheNamedColumn ==
    (Pivoted /\ raised = "none" /\ InputRows # {}) =>
        /\ \A i \in DOMAIN ret :
                DOMAIN ret[i]
                    = ((DOMAIN args.model_out[1]) \ {horizon_col, pred_col})
                        \cup {wide_col_name(h) : h \in FullRange}
        /\ {ret[i][args.idx_col] : i \in DOMAIN ret} = 0 .. (TotalSamples - 1)

\* C28: each (key_cols, reference_time) group with c samples per horizon
\* receives c consecutive integers [s, s + c) as sample ids; the blocks of
\* different groups are disjoint and together cover exactly 0 .. N - 1 for
\* N the number of wide rows, s being the sum of the counts of the groups
\* whose blocks lie before; within a group every horizon uses the same
\* block, each id once per horizon.
C28_DenseDisjointBlocks ==
    (Pivoted /\ raised = "none" /\ InputRows # {}) =>
        /\ \A g \in InputGroups :
            /\ Cardinality(WideRows(g)) = SamplesIn(g)
            /\ IdsOf(g, args.idx_col)
                    = Min(IdsOf(g, args.idx_col)) .. (Min(IdsOf(g, args.idx_col)) + SamplesIn(g) - 1)
            /\ Min(IdsOf(g, args.idx_col))
                    = Cardinality({i \in DOMAIN ret :
                            ret[i][args.idx_col] < Min(IdsOf(g, args.idx_col))})
            /\ \A h \in FullRange : \A i, j \in WideRows(g) :
                    /\ ret[i][wide_col_name(h)] # Null
                    /\ i # j => ret[i][args.idx_col] # ret[j][args.idx_col]
        /\ \A g1, g2 \in InputGroups :
                g1 # g2 => IdsOf(g1, args.idx_col) \cap IdsOf(g2, args.idx_col) = {}
        /\ UNION {IdsOf(g, args.idx_col) : g \in InputGroups} = 0 .. (Len(ret) - 1)

\* the units energy_score scores: those with a row in both frames
ScoredUnits ==
    {Project(args.model_out_wide[p[1]], Range(args.key_cols)) :
        p \in joined_pairs(args.model_out_wide, args.obs_data_wide, args.key_cols)}

\* a predicted cell of a sample of the unit, or an observed cell of the
\* unit, is null
HasNullCell(unit) ==
    \/ \E m \in DOMAIN args.model_out_wide, k \in DOMAIN args.pred_cols :
            /\ Project(args.model_out_wide[m], Range(args.key_cols)) = unit
            /\ args.model_out_wide[m][args.pred_cols[k]] = Null
    \/ \E o \in DOMAIN args.obs_data_wide, k \in DOMAIN args.obs_cols :
            /\ Project(args.obs_data_wide[o], Range(args.key_cols)) = unit
            /\ args.obs_data_wide[o][args.obs_cols[k]] = Null

\* the score of a unit without a null cell
ScoreOf(unit) ==
    energy_score_row(args.model_out_wide, args.obs_data_wide, args.key_cols,
                     args.pred_cols, args.obs_cols, unit).energy_score

Scored == op = "energy_score" /\ args.keywords \subseteq energy_score_params

\* C26: energy_score does not raise on null cells; a unit with a null in a
\* predicted or observed column gets the score NaN and every other unit a
\* number; without reduce_mean the result has exactly one row per unit, and
\* with reduce_mean the result is the mean over exactly the units whose
\* score is not NaN (None when there is no such unit).
C26_NullUnitsScoreNaN ==
    Scored =>
        /\ raised = "none"
        /\ ~ args.reduce_mean =>
            /\ Len(ret) = Cardinality(ScoredUnits)
            /\ \A unit \in ScoredUnits :
                \E i \in DOMAIN ret :
                    /\ Project(ret[i], Range(args.key_cols)) = unit
                    /\ DOMAIN ret[i] = Range(args.key_cols) \cup {"energy_score"}
                    /\ (ret[i].energy_score = NaN) <=> HasNullCell(unit)
                    /\ ~ HasNullCell(unit) => ret[i].energy_score.den > 0
        /\ args.reduce_mean =>
            LET scored == {unit \in ScoredUnits : ~ HasNullCell(unit)}
                dens == [unit \in scored |-> ScoreOf(unit).den]
            IN  IF scored = {} THEN ret = NoValue
                ELSE /\ ret # NoValue
                     /\ ret.den > 0
                     /\ Cardinality(scored) * ret.num * ProductOver(scored, dens)
                            = ret.den * SumOver(scored, [unit \in scored |->
                                ScoreOf(unit).num * ProductOver(scored \ {unit}, dens)])

C26_Witness ==
    /\ Scored
    /\ args.reduce_mean
    /\ raised = "none"
    /\ \E unit \in ScoredUnits : HasNullCell(unit)
    /\ \E unit \in ScoredUnits : ~ HasNullCell(unit) /\ ScoreOf(unit).num > 0
    /\ ret # NoValue

\* the array of a direct call of argsort_random_tiebreak, and how many
\* positional arguments the call has
ArgsortArr == template_column(args.templates, 1)

ArgsortPositional == IF args.call = "argsort_random_tiebreak(arr)" THEN 1 ELSE 2

\* the permutations of the indices of arr that list its values in
\* ascending order
ValidArgsorts(arr) ==
    {order \in Orderings(DOMAIN arr) :
        \A k \in 1 .. (Len(arr) - 1) : arr[order[k]] <= arr[order[k + 1]]}

\* C27: a call argsort_random_tiebreak(arr, rng) returns a permutation of
\* the indices of arr that lists the values of arr in ascending order, and
\* every such permutation is the result of the call for some state of the
\* random source.
C27_ExactlyTheValidArgsorts ==
    (op = "argsort_random_tiebreak" /\ args.call = "argsort_random_tiebreak(arr, rng)") =>
        /\ raised = "none"
        /\ ret \in ValidArgsorts(ArgsortArr)
        /\ \A order \in ValidArgsorts(ArgsortArr) :
            \E state \in RngStates :
                call_argsort_random_tiebreak(ArgsortPositional, {}, ArgsortArr, state).ret = order

\* the training set a postprocessor that was only fit, with the arguments
\* of the most recent fit, builds with the arguments of the last call
FreshTrainingSet ==
    build_train_X_Y(fit_for_history(constructed(0), args.df), args.min_horizon,
                    args.max_horizon, args.obs_mask, NoValue, reference_time_col,
                    FALSE, <<>>).obj

\* C29: after any sequence of calls of fit and of training-set
\* constructions, the training set the last construction built is the one
\* that follows from the arguments of the most recent fit and from the
\* horizon range and mask of that construction alone; right after a fit the
\* observations of the object are those of that fit.
C29_TrainingSetHistoryIndependent ==
    /\ op = "fit" => self.df = args.df
    /\ op = "_build_train_X_Y" =>
            /\ raised = "none"
            /\ self.train_X = FreshTrainingSet.train_X
            /\ self.train_Y = FreshTrainingSet.train_Y

-----------------------------------------------------------------------------
(* Claims about the generators of several Schaake instances.               *)

\* the instances whose draws come before call k from the random stream of
\* the instance of call k: every instance constructed without rng when that
\* one was, the instance itself when it was given a generator
SameStream(i) ==
    IF args.explicit[i] THEN {i} ELSE {j \in 1 .. 2 : ~ args.explicit[j]}

\* the number of draws made from the stream of call k before call k
DrawsBefore(k) ==
    SumSeq([m \in 1 .. (k - 1) |->
                IF history[m][3] \in SameStream(history[k][3]) THEN history[m][4] ELSE 0])

\* the state the stream of instance i starts in
StreamStart(i) == IF args.explicit[i] THEN args.seeds[i] ELSE args.default_state

\* the templates a call of q rows through instance i gets from a generator
\* in the given state
TemplatesFrom(i, q, state) ==
    build_templates(SetAttr(instance_view(self, i), "rng", state),
                    query_rows(0, 0, q, FALSE)).ret

\* C30: the instances constructed without rng hold one generator object
\* and one weighter object, and an instance given a generator holds that
\* one; every call of _build_templates draws from the stream of its
\* instance at the position after all draws made before through the
\* instances constructed without rng, when its instance is one of them, and
\* after the draws of its own instance only, when it was given a generator.
C30_DefaultGeneratorShared ==
    /\ \A i, j \in 1 .. 2 :
        /\ self.instances[i].weighter = self.instances[j].weighter
        /\ (~ args.explicit[i] /\ ~ args.explicit[j])
                => self.instances[i].rng = self.instances[j].rng
        /\ (i # j /\ args.explicit[i]) => self.instances[i].rng # self.instances[j].rng
    /\ \A k \in DOMAIN history :
        /\ history[k][2] = "none"
        /\ history[k][1] = TemplatesFrom(history[k][3], history[k][4],
                              rng_advance(StreamStart(history[k][3]), DrawsBefore(k)))

\* two instances constructed without rng: the second draws after the first
\* and gets other templates than it gets from the generator's first state
C30_Witness ==
    /\ Len(history) = 2
    /\ ~ args.explicit[1] /\ ~ args.explicit[2]
    /\ history[1][3] = 1 /\ history[2][3] = 2
    /\ history[2][1] # TemplatesFrom(2, history[2][4], args.default_state)


====
